---- MODULE Spec2Model ----
(***************************************************************************)
(* A model of the PhoneAgent JSON-RPC bridge (android_rpc_bridge.py) and   *)
(* of the localhost forwarder (forward_rpc_localhost.py).                  *)
(*                                                                         *)
(* The byte stream of a connection is a sequence of symbols: LF is the     *)
(* newline byte, SP a whitespace byte, and every other symbol stands for   *)
(* the bytes of one complete JSON text (see JsonText).  A line is what     *)
(* lies between two LF; the concatenation of two JSON texts is not JSON.   *)
(***************************************************************************)
EXTENDS Integers, Sequences, FiniteSets, TLC

(***************************************************************************)
(* Bounds of the model.                                                    *)
(***************************************************************************)
\* Segments the clients of the two-connection specification send in total.
MaxSends == 2
\* Segments the client of the single-connection specification sends.
MaxLineSends == 2

Conns == {1, 2}

LF == "LF"
SP == "SP"

\* Peer addresses accept() reports: a loopback one and a foreign one.
PeerAddrs == {"127.0.0.1", "10.0.0.5"}

(***************************************************************************)
(* JSON values, tagged with their Python type after json.loads.            *)
(***************************************************************************)
Str(s) == [t |-> "str", v |-> s]
Num(s) == [t |-> "num", v |-> s]
Null == [t |-> "null", v |-> ""]
Arr == [t |-> "list", v |-> ""]
Obj(f) == [t |-> "dict", v |-> f]
EmptyDict == << >>

\* The request texts the clients send, by symbol.
Lines ==
    {"bad", "arr", "nomethod", "nummethod", "badparams", "setkey1", "setkey2",
     "submit", "stop", "tree", "bogus"}

\* The requests of the two-connection specification.
SessionLines == {"setkey1", "setkey2", "submit", "stop"}

\* json.loads of the text a symbol stands for: valid is FALSE when the text
\* is not JSON (json.loads raises ValueError).
JsonText(sym) ==
    CASE sym = "arr" -> [valid |-> TRUE, val |-> Arr]
      [] sym = "nomethod" -> [valid |-> TRUE, val |-> Obj([id |-> Num("1")])]
      [] sym = "nummethod" ->
            [valid |-> TRUE, val |-> Obj([id |-> Num("2"), method |-> Num("5")])]
      [] sym = "badparams" ->
            [valid |-> TRUE,
             val |-> Obj([id |-> Num("3"), method |-> Str("get_tree"), params |-> Arr])]
      [] sym = "setkey1" ->
            [valid |-> TRUE,
             val |-> Obj([id |-> Num("4"), method |-> Str("set_api_key"),
                          params |-> Obj([api_key |-> Str("k1")])])]
      [] sym = "setkey2" ->
            [valid |-> TRUE,
             val |-> Obj([id |-> Num("5"), method |-> Str("set_api_key"),
                          params |-> Obj([api_key |-> Str("k2")])])]
      [] sym = "submit" ->
            [valid |-> TRUE, val |-> Obj([method |-> Str("submit_prompt")])]
      [] sym = "stop" ->
            [valid |-> TRUE, val |-> Obj([id |-> Num("6"), method |-> Str("stop")])]
      [] sym = "tree" ->
            [valid |-> TRUE,
             val |-> Obj([id |-> Str("t7"), method |-> Str("get_tree"),
                          params |-> Obj(EmptyDict)])]
      [] sym = "bogus" ->
            [valid |-> TRUE, val |-> Obj([id |-> Num("8"), method |-> Str("bogus")])]
      [] OTHER -> [valid |-> FALSE, val |-> Null]

\* json.loads(line.decode("utf-8")) of a stripped, non-empty line.
json_loads(line) ==
    IF Len(line) = 1 THEN JsonText(line[1]) ELSE [valid |-> FALSE, val |-> Null]

\* dict.get(key, default)
Get(d, key, default) == IF key \in DOMAIN d THEN d[key] ELSE default

(***************************************************************************)
(* Framing: buffer.find(b"\n"), bytes(buffer[:nl]).strip(), del buffer.    *)
(***************************************************************************)
\* buffer.find(b"\n"), 1-based; 0 when there is none.
find_nl(buffer) ==
    IF \E i \in 1..Len(buffer) : buffer[i] = LF
    THEN CHOOSE i \in 1..Len(buffer) :
            buffer[i] = LF /\ \A j \in 1..(i - 1) : buffer[j] # LF
    ELSE 0

\* Mutant: the line is taken from the buffer as it is.
strip_nothing(s) == s

\* bytes.strip(): leading and trailing whitespace removed.
strip(s) ==
    LET keep == {i \in 1..Len(s) : s[i] # SP}
    IN  IF keep = {} THEN << >>
        ELSE LET lo == CHOOSE i \in keep : \A j \in keep : i <= j
                 hi == CHOOSE i \in keep : \A j \in keep : j <= i
             IN  SubSeq(s, lo, hi)

(***************************************************************************)
(* The Automation Dispatcher, AndroidDeviceBridge.handle.  A request runs  *)
(* against a device environment dev:                                       *)
(*   fail_at, how  the fail_at-th adb invocation of the request goes wrong *)
(*                 (0: none does): "fail" is a non-zero exit status, an    *)
(*                 RPCError when the invocation has check=True; "timeout"  *)
(*                 is subprocess.TimeoutExpired, which is no RPCError;     *)
(*   screen        the size "wm size" prints, << >> when it prints none;   *)
(*   xml           the dump holds a <hierarchy element;                    *)
(*   redumped      between the request's dump and its read of the dump,    *)
(*                 another thread's request has dumped the hierarchy to    *)
(*                 the same file /sdcard/window_dump.xml;                  *)
(*   parses        the dump is well-formed XML (ET.fromstring returns);    *)
(*   png           screencap returns PNG bytes;                            *)
(*   resolve, start, monkey, foreground  what the unchecked invocations of *)
(*                 open_app report.                                        *)
(* The outcome of a request carries the adb invocations it made, in order. *)
(***************************************************************************)
Env(k, h, scr, x, png, rs, st, mk, fg) ==
    [fail_at |-> k, how |-> h, screen |-> scr, xml |-> x, parses |-> TRUE,
     redumped |-> FALSE, png |-> png,
     resolve |-> rs, start |-> st, monkey |-> mk, foreground |-> fg]

\* The device with a dump that is not well-formed XML (an element left open,
\* the text cut off): ET.fromstring raises ET.ParseError.
Malformed(dev) == [dev EXCEPT !.parses = FALSE]

\* The device on which another request's dump has replaced this request's
\* dump before it is read.
Redumped(dev) == [dev EXCEPT !.redumped = TRUE]

\* A device on which every invocation succeeds, but for the k-th one.
EnvFailing(k, h) == Env(k, h, <<1080, 1920>>, TRUE, TRUE, "component", "ok", "ok", "same")

\* What the device does in the listener specifications: all goes well, the
\* first invocation fails, the first invocation times out.
DevOutcomes == {EnvFailing(0, "fail"), EnvFailing(1, "fail"), EnvFailing(1, "timeout")}

\* str.strip() of the strings of the model: " " is the whitespace-only one.
str_strip(s) == IF s = " " THEN "" ELSE s

\* The fields of a result that depend on the request.
NoFields == [coordinate |-> "", count |-> 0, longPress |-> FALSE, package |-> << >>,
             tree |-> 0, dump |-> ""]

Returned(result, should_stop, key) ==
    [kind |-> "result", value |-> result, stop |-> should_stop, api_key |-> key,
     log |-> << >>, fields |-> NoFields]

RaisedRPCError(msg, key) ==
    [kind |-> "rpc_error", value |-> msg, stop |-> FALSE, api_key |-> key,
     log |-> << >>, fields |-> NoFields]

RaisedException(exc, key) ==
    [kind |-> "exception", value |-> exc, stop |-> FALSE, api_key |-> key,
     log |-> << >>, fields |-> NoFields]

\* The adb invocations.
Tap(x, y) == [op |-> "tap", x |-> x, y |-> y]
Swipe(x, y, x2, y2, ms) == [op |-> "swipe", x |-> x, y |-> y, x2 |-> x2, y2 |-> y2, ms |-> ms]
InputText(n) == [op |-> "text", len |-> n]
KeyEvent(code) == [op |-> "keyevent", code |-> code]
WmSize == [op |-> "wm_size"]
UiDump == [op |-> "uiautomator_dump"]
CatDump == [op |-> "cat_dump"]
ResolveActivity(p) == [op |-> "resolve_activity", package |-> p]
AmStart(p) == [op |-> "am_start", package |-> p]
Monkey(p) == [op |-> "monkey", package |-> p]
Dumpsys == [op |-> "dumpsys_window"]
Screencap == [op |-> "screencap"]

\* A request under way: the invocations made, the exception raised, and
\* whose dump its read of the dump file returned ("own", "other").
Running == [log |-> << >>, err |-> "none", msg |-> "", dump |-> ""]

Raise(st, kind, msg) == [st EXCEPT !.err = kind, !.msg = msg]

\* Mutant: a command that fails is issued once more, and that one counts.
adb_retried(st, cmd, check, dev) ==
    IF st.err # "none" THEN st
    ELSE LET k == Len(st.log) + 1
             issued == Append(st.log, cmd)
         IN  IF dev.fail_at = k /\ dev.how = "timeout"
             THEN [st EXCEPT !.log = issued, !.err = "exception", !.msg = "TimeoutExpired"]
             ELSE IF dev.fail_at = k /\ check
             THEN [st EXCEPT !.log = Append(issued, cmd)]
             ELSE [st EXCEPT !.log = issued]

\* self._adb(*args, check=check): subprocess.run, then the returncode test.
adb(st, cmd, check, dev) ==
    IF st.err # "none" THEN st
    ELSE LET k == Len(st.log) + 1
             issued == Append(st.log, cmd)
         IN  IF dev.fail_at = k /\ dev.how = "timeout"
             THEN [st EXCEPT !.log = issued, !.err = "exception", !.msg = "TimeoutExpired"]
             ELSE IF dev.fail_at = k /\ check
             THEN [st EXCEPT !.log = issued, !.err = "rpc_error",
                             !.msg = "adb command failed"]
             ELSE [st EXCEPT !.log = issued]

\* The outcome of handle when the request ran as st: the exception raised,
\* or the result returned.
Finish(st, result, fields, key) ==
    [kind |-> IF st.err = "none" THEN "result" ELSE st.err,
     value |-> IF st.err = "none" THEN result ELSE st.msg,
     stop |-> FALSE, api_key |-> key, log |-> st.log,
     fields |-> IF st.err = "none" THEN fields ELSE NoFields]

\* _uiautomator_xml: dump, cat, the <hierarchy test.  The cat reads the file
\* as the last dump of any request has left it.
uiautomator_xml(st, dev) ==
    LET read == adb(adb(st, UiDump, TRUE, dev), CatDump, TRUE, dev)
    IN  IF read.err # "none" THEN read
        ELSE IF ~dev.xml
        THEN Raise(read, "rpc_error", "uiautomator dump did not return XML hierarchy")
        ELSE [read EXCEPT !.dump = IF dev.redumped THEN "other" ELSE "own"]

\* self._current_tree(): _format_tree(self._uiautomator_xml()), which raises
\* RPCError for a dump that does not parse.
current_tree_of(st, dev) ==
    LET xml == uiautomator_xml(st, dev)
    IN  IF xml.err = "none" /\ ~dev.parses
        THEN Raise(xml, "rpc_error", "failed to parse UI hierarchy XML")
        ELSE xml

\* {"tree": self._current_tree()}: the snapshot is the one read after the
\* invocations made so far, from the request's own dump or another one's.
WithTree(st, fields) == [fields EXCEPT !.tree = Len(st.log), !.dump = st.dump]

\* _current_tree() as the whole of a request (get_tree).
current_tree(dev, key) ==
    LET st == current_tree_of(Running, dev)
    IN  Finish(st, "tree", WithTree(st, NoFields), key)

\* _screen_png(): screencap, then the PNG signature test.
screen_png(st, dev) ==
    LET shot == adb(st, Screencap, TRUE, dev)
    IN  IF shot.err = "none" /\ ~dev.png
        THEN Raise(shot, "rpc_error", "device screencap did not return PNG bytes")
        ELSE shot

(***************************************************************************)
(* Parameters.  A JSON integer n is Integer(n); a JSON number with a fraction  *)
(* is Float(h), standing for h/2; numbers are kept as twice their value.   *)
(***************************************************************************)
Integer(n) == [t |-> "int", v |-> n]
Float(h) == [t |-> "float", v |-> h]
Bool(b) == [t |-> "bool", v |-> b]

\* A string given by its characters, and a string given by the lengths of
\* its lines, text.split("\n"): the empty string has one line of length 0.
Text(cs) == [t |-> "text", v |-> cs]
TextOfLines(ls) == [t |-> "lines", v |-> ls]

\* isinstance(value, str)
IsStr(value) == value.t \in {"str", "text", "lines"}

Min(a, b) == IF a <= b THEN a ELSE b
Max(a, b) == IF a >= b THEN a ELSE b

\* What evaluating an argument gives: its value, or the exception raised.
ArgOk(v) == [err |-> "none", msg |-> "", v |-> v]
ArgErr(kind, msg) == [err |-> kind, msg |-> msg, v |-> 0]

\* float(s) of the strings of the model, as twice the value; float accepts
\* surrounding whitespace and "nan".
float_of_str(s) ==
    CASE s = "12" -> [ok |-> TRUE, nan |-> FALSE, twice |-> 24]
      [] s = " 7 " -> [ok |-> TRUE, nan |-> FALSE, twice |-> 14]
      [] s = "2.5" -> [ok |-> TRUE, nan |-> FALSE, twice |-> 5]
      [] s = "nan" -> [ok |-> TRUE, nan |-> TRUE, twice |-> 0]
      [] OTHER -> [ok |-> FALSE, nan |-> FALSE, twice |-> 0]

\* _number_value(params, key): the float, as twice its value.
number_value(params, key) ==
    IF key \notin DOMAIN params
    THEN ArgErr("rpc_error", "missing parameter '" \o key \o "'")
    ELSE LET value == params[key]
         IN  CASE value.t = "int" -> ArgOk([nan |-> FALSE, twice |-> 2 * value.v])
               [] value.t = "float" -> ArgOk([nan |-> FALSE, twice |-> value.v])
               [] value.t = "bool" ->
                     ArgOk([nan |-> FALSE, twice |-> IF value.v THEN 2 ELSE 0])
               [] value.t = "str" /\ float_of_str(value.v).ok ->
                     ArgOk([nan |-> float_of_str(value.v).nan,
                            twice |-> float_of_str(value.v).twice])
               [] OTHER ->
                     ArgErr("rpc_error", "parameter '" \o key \o "' must be a number")

\* round(h/2): Python rounds a half to the even neighbour.
round(h) ==
    IF h % 2 = 0 THEN h \div 2
    ELSE LET f == (h - 1) \div 2 IN IF f % 2 = 0 THEN f ELSE f + 1

\* int(round(_number_value(params, key))); round(nan) raises ValueError.
int_round_number(params, key) ==
    LET a == number_value(params, key)
    IN  IF a.err # "none" THEN a
        ELSE IF a.v.nan THEN ArgErr("exception", "ValueError")
        ELSE ArgOk(round(a.v.twice))

\* _string_value(params, key)
string_value(params, key) ==
    IF key \notin DOMAIN params
    THEN ArgErr("rpc_error", "missing parameter '" \o key \o "'")
    ELSE IF ~IsStr(params[key])
    THEN ArgErr("rpc_error", "parameter '" \o key \o "' must be a string")
    ELSE ArgOk(params[key].v)

\* bool(value)
truthy(value) ==
    CASE value.t = "bool" -> value.v
      [] value.t \in {"int", "float"} -> value.v # 0
      [] value.t = "str" -> value.v # ""
      [] value.t = "text" -> value.v # << >>
      [] value.t = "lines" -> value.v # <<0>>
      [] OTHER -> FALSE

\* int(s) of the strings of the model.
int_of_str(s) ==
    CASE s = "12" -> [ok |-> TRUE, v |-> 12]
      [] s = " 7 " -> [ok |-> TRUE, v |-> 7]
      [] OTHER -> [ok |-> FALSE, v |-> 0]

\* int(value): a float is truncated towards zero.
int_of(value) ==
    CASE value.t = "int" -> ArgOk(value.v)
      [] value.t = "float" ->
            ArgOk(IF value.v >= 0 THEN value.v \div 2 ELSE -((-value.v) \div 2))
      [] value.t = "bool" -> ArgOk(IF value.v THEN 1 ELSE 0)
      [] value.t = "str" ->
            IF int_of_str(value.v).ok THEN ArgOk(int_of_str(value.v).v)
            ELSE ArgErr("exception", "ValueError")
      [] OTHER -> ArgErr("exception", "TypeError")

\* COORD_RE.fullmatch(coordinate.strip()) for the coordinate texts of the
\* model: the four numbers, << >> when the text does not match.
coord_match(s) ==
    CASE s = "{{10, 20}, {5, 7}}" -> <<10, 20, 5, 7>>
      [] s = " {{0, 0}, {1, 3}} " -> <<0, 0, 1, 3>>
      [] s = "{{-4,2},{3,0}}" -> <<-4, 2, 3, 0>>
      [] OTHER -> << >>

\* _parse_coordinate_rect(coordinate)
parse_coordinate_rect(s) ==
    IF coord_match(s) = << >>
    THEN ArgErr("rpc_error", "coordinate must look like {{x, y}, {w, h}}; got '" \o s \o "'")
    ELSE ArgOk(coord_match(s))

\* _center_of_coordinate(coordinate): int(round(x + w / 2.0)), the same for y.
center_of_coordinate(s) ==
    LET r == parse_coordinate_rect(s)
    IN  IF r.err # "none" THEN r
        ELSE ArgOk([x |-> round(2 * r.v[1] + r.v[3]), y |-> round(2 * r.v[2] + r.v[4])])

(***************************************************************************)
(* The handlers of the methods.                                            *)
(***************************************************************************)
\* The exception an argument raised ends the request.
Rejected(a, key) ==
    IF a.err = "rpc_error" THEN RaisedRPCError(a.msg, key) ELSE RaisedException(a.msg, key)

\* _screen_size(): "wm size", then the search for <digits> x <digits>.
screen_size(st, dev) ==
    LET asked == adb(st, WmSize, TRUE, dev)
    IN  IF asked.err = "none" /\ dev.screen = << >>
        THEN Raise(asked, "rpc_error", "failed to read screen size")
        ELSE asked

tap(params, key, dev) ==
    LET x == int_round_number(params, "x")
        y == int_round_number(params, "y")
    IN  IF x.err # "none" THEN Rejected(x, key)
        ELSE IF y.err # "none" THEN Rejected(y, key)
        ELSE LET st == current_tree_of(adb(Running, Tap(x.v, y.v), TRUE, dev), dev)
             IN  Finish(st, "tree", WithTree(st, NoFields), key)

\* for _ in range(count): input tap x y
RECURSIVE taps(_, _, _, _, _)
taps(st, n, x, y, dev) ==
    IF n <= 0 THEN st ELSE taps(adb(st, Tap(x, y), TRUE, dev), n - 1, x, y, dev)

\* The long press of tap_element lasts this many milliseconds.
LongPressMs == 550

\* The gestures of tap_element at the centre c.
tap_gestures(st, long_press, count, c, dev) ==
    IF long_press
    THEN adb(st, Swipe(c.x, c.y, c.x, c.y, LongPressMs), TRUE, dev)
    ELSE taps(st, count, c.x, c.y, dev)

\* Mutant: the count of the request is reported also for a long press.
effective_count_requested(long_press, count) == count

\* effective_count of tap_element
effective_count(long_press, count) == IF long_press THEN 1 ELSE count

tap_element(params, key, dev) ==
    LET coordinate == string_value(params, "coordinate")
        count == int_of(Get(params, "count", Integer(1)))
        long_press == truthy(Get(params, "longPress", Bool(FALSE)))
    IN  IF coordinate.err # "none" THEN Rejected(coordinate, key)
        ELSE IF count.err # "none" THEN Rejected(count, key)
        ELSE IF count.v < 1 THEN RaisedRPCError("count must be >= 1", key)
        ELSE LET c == center_of_coordinate(coordinate.v)
             IN  IF c.err # "none" THEN Rejected(c, key)
                 ELSE LET st == current_tree_of(
                                  tap_gestures(Running, long_press, count.v, c.v, dev), dev)
                      IN  Finish(st, "tree",
                                 WithTree(st, [NoFields EXCEPT
                                    !.coordinate = coordinate.v,
                                    !.count = effective_count(long_press, count.v),
                                    !.longPress = long_press]),
                                 key)

\* _chunk_text takes chunks of this many characters.
ChunkSize == 80

\* _chunk_text(text, chunk_size) of a line of n characters: the lengths of
\* its chunks.
chunk_text(n, chunk_size) ==
    IF n = 0 THEN << >>
    ELSE [i \in 1..((n + chunk_size - 1) \div chunk_size) |->
            IF i * chunk_size <= n THEN chunk_size ELSE n - (i - 1) * chunk_size]

\* The key code of the newline key event.
KeyEnter == 66

\* for chunk in _chunk_text(line): input text <escaped chunk>
RECURSIVE input_chunks(_, _, _)
input_chunks(st, chunks, dev) ==
    IF chunks = << >> THEN st
    ELSE input_chunks(adb(st, InputText(chunks[1]), TRUE, dev), Tail(chunks), dev)

\* The loop of _input_text over lines[i..]: the chunks of a line, then the
\* newline key event unless the line is the last.
RECURSIVE input_lines(_, _, _, _)
input_lines(st, lines, i, dev) ==
    IF i > Len(lines) THEN st
    ELSE LET typed == input_chunks(st, chunk_text(lines[i], ChunkSize), dev)
             after == IF i < Len(lines) THEN adb(typed, KeyEvent(KeyEnter), TRUE, dev)
                      ELSE typed
         IN  input_lines(after, lines, i + 1, dev)

\* _input_text(text)
input_text(st, lines, dev) ==
    IF lines = <<0>> THEN st ELSE input_lines(st, lines, 1, dev)

enter_text(params, key, dev) ==
    LET coordinate == string_value(params, "coordinate")
        text == string_value(params, "text")
    IN  IF coordinate.err # "none" THEN Rejected(coordinate, key)
        ELSE IF text.err # "none" THEN Rejected(text, key)
        ELSE LET c == center_of_coordinate(coordinate.v)
             IN  IF c.err # "none" THEN Rejected(c, key)
                 ELSE LET focused == adb(Running, Tap(c.v.x, c.v.y), TRUE, dev)
                          typed == input_text(focused, text.v, dev)
                          entered == adb(typed, KeyEvent(KeyEnter), TRUE, dev)
                          st == current_tree_of(entered, dev)
                      IN  Finish(st, "tree",
                                 WithTree(st, [NoFields EXCEPT !.coordinate = coordinate.v]),
                                 key)

\* Mutant: the lower bound is not applied.
clamp_above_only(v, size) == Min(v, size - 1)

\* min(max(v, 0), size - 1)
clamp(v, size) == Min(Max(v, 0), size - 1)

\* The swipes of scroll and swipe last this many milliseconds.
SwipeMs == 220

scroll(params, key, dev) ==
    LET x == int_round_number(params, "x")
        y == int_round_number(params, "y")
        distance_x == int_round_number(params, "distanceX")
        distance_y == int_round_number(params, "distanceY")
    IN  IF x.err # "none" THEN Rejected(x, key)
        ELSE IF y.err # "none" THEN Rejected(y, key)
        ELSE IF distance_x.err # "none" THEN Rejected(distance_x, key)
        ELSE IF distance_y.err # "none" THEN Rejected(distance_y, key)
        ELSE LET sized == screen_size(Running, dev)
             IN  IF sized.err # "none" THEN Finish(sized, "tree", NoFields, key)
                 ELSE LET x2 == clamp(x.v + distance_x.v, dev.screen[1])
                          y2 == clamp(y.v + distance_y.v, dev.screen[2])
                          st == current_tree_of(
                                   adb(sized, Swipe(x.v, y.v, x2, y2, SwipeMs), TRUE, dev),
                                   dev)
                      IN  Finish(st, "tree", WithTree(st, NoFields), key)

\* direction.lower().strip() for the direction texts of the model
lower_strip(s) ==
    CASE s = " UP " -> "up"
      [] s = "Left" -> "left"
      [] OTHER -> s

\* The least distance a swipe travels.
MinSpan == 180

\* Mutant: the least distance is not applied.
span_of_half(width, height) == Min(width, height) \div 2

\* span = max(180, min(width, height) // 2)
span_of(width, height) == Max(MinSpan, Min(width, height) \div 2)

\* The end point of a swipe from (x, y) before it is clamped.
swipe_target(direction, x, y, span) ==
    CASE direction = "up" -> [x |-> x, y |-> y - span]
      [] direction = "down" -> [x |-> x, y |-> y + span]
      [] direction = "left" -> [x |-> x - span, y |-> y]
      [] direction = "right" -> [x |-> x + span, y |-> y]
      [] OTHER -> [x |-> x, y |-> y]

swipe(params, key, dev) ==
    LET x == int_round_number(params, "x")
        y == int_round_number(params, "y")
        direction == string_value(params, "direction")
    IN  IF x.err # "none" THEN Rejected(x, key)
        ELSE IF y.err # "none" THEN Rejected(y, key)
        ELSE IF direction.err # "none" THEN Rejected(direction, key)
        ELSE IF lower_strip(direction.v) \notin {"up", "down", "left", "right"}
        THEN RaisedRPCError("direction must be one of: up, down, left, right", key)
        ELSE LET sized == screen_size(Running, dev)
             IN  IF sized.err # "none" THEN Finish(sized, "tree", NoFields, key)
                 ELSE LET t == swipe_target(lower_strip(direction.v), x.v, y.v,
                                            span_of(dev.screen[1], dev.screen[2]))
                          x2 == clamp(t.x, dev.screen[1])
                          y2 == clamp(t.y, dev.screen[2])
                          st == current_tree_of(
                                   adb(sized, Swipe(x.v, y.v, x2, y2, SwipeMs), TRUE, dev),
                                   dev)
                      IN  Finish(st, "tree", WithTree(st, NoFields), key)

(***************************************************************************)
(* open_app.  An identifier is given by its characters; the characters of  *)
(* the model are letters, digits, "_", ".", the space and "!".             *)
(***************************************************************************)
Letters == {"a", "B"}
Digits == {"0", "1"}
WordChars == Letters \cup Digits \cup {"_"}

\* str.strip() of a string given by its characters.
text_strip(cs) ==
    LET keep == {i \in 1..Len(cs) : cs[i] # " "}
    IN  IF keep = {} THEN << >>
        ELSE LET lo == CHOOSE i \in keep : \A j \in keep : i <= j
                 hi == CHOOSE i \in keep : \A j \in keep : j <= i
             IN  SubSeq(cs, lo, hi)

(***************************************************************************)
(* Rects as text.  A float here is its sign and its magnitude in 160ths,   *)
(* which holds the 32nds the rects are made of and the tenths of the text  *)
(* exactly; texts are sequences of characters.                             *)
(***************************************************************************)
FloatOf(neg, mag) == [neg |-> neg, mag |-> mag]

\* The float of n/32.
Of32nds(n) == FloatOf(n < 0, 5 * (IF n < 0 THEN -n ELSE n))

\* The signed magnitude of a float, in 160ths.
Signed(f) == IF f.neg THEN -f.mag ELSE f.mag

DigitChars == <<"0", "1", "2", "3", "4", "5", "6", "7", "8", "9">>
IsDigit(c) == \E d \in 1..10 : DigitChars[d] = c
DigitValue(c) == (CHOOSE d \in 1..10 : DigitChars[d] = c) - 1

\* The decimal digits of a natural number.
RECURSIVE decimal(_)
decimal(n) ==
    IF n < 10 THEN <<DigitChars[n + 1]>>
    ELSE Append(decimal(n \div 10), DigitChars[(n % 10) + 1])

\* The natural number of decimal digits.
RECURSIVE natural(_)
natural(ds) ==
    IF ds = << >> THEN 0
    ELSE 10 * natural(SubSeq(ds, 1, Len(ds) - 1)) + DigitValue(ds[Len(ds)])

\* f"{v:.1f}": the nearest tenth, a tie going to the even one, with the sign
\* of v even when the tenths are zero.
format_1f(f) ==
    LET q == f.mag \div 16
        r == f.mag % 16
        tenths == IF r > 8 \/ (r = 8 /\ q % 2 = 1) THEN q + 1 ELSE q
    IN  (IF f.neg THEN <<"-">> ELSE << >>)
        \o decimal(tenths \div 10) \o <<".", DigitChars[(tenths % 10) + 1]>>

\* _format_rect(x, y, w, h)
format_rect(x, y, w, h) ==
    <<"{", "{">> \o format_1f(x) \o <<",", " ">> \o format_1f(y) \o <<"}", ",", " ", "{">>
    \o format_1f(w) \o <<",", " ">> \o format_1f(h) \o <<"}", "}">>

\* \s* from position i: the position after the whitespace.
RECURSIVE skip_ws(_, _)
skip_ws(cs, i) == IF i <= Len(cs) /\ cs[i] = " " THEN skip_ws(cs, i + 1) ELSE i

\* \d* from position i: the position after the digits.
RECURSIVE skip_digits(_, _)
skip_digits(cs, i) ==
    IF i <= Len(cs) /\ IsDigit(cs[i]) THEN skip_digits(cs, i + 1) ELSE i

\* A literal character at position i: the position after it, 0 for no match.
literal(cs, i, c) == IF i # 0 /\ i <= Len(cs) /\ cs[i] = c THEN i + 1 ELSE 0

\* Mutant: a number has no sign.
number_end_unsigned(cs, i) ==
    LET int_end == skip_digits(cs, i)
        frac_end == IF literal(cs, int_end, ".") = 0 THEN int_end
                    ELSE skip_digits(cs, int_end + 1)
    IN  IF i = 0 \/ int_end = i THEN 0
        ELSE IF frac_end > int_end + 1 THEN frac_end ELSE int_end

\* -?\d+(?:\.\d+)? at position i: the position after the number, 0 for no
\* match.
number_end(cs, i) ==
    LET start == IF literal(cs, i, "-") = 0 THEN i ELSE i + 1
        int_end == skip_digits(cs, start)
        frac_end == IF literal(cs, int_end, ".") = 0 THEN int_end
                    ELSE skip_digits(cs, int_end + 1)
    IN  IF i = 0 \/ int_end = start THEN 0
        ELSE IF frac_end > int_end + 1 THEN frac_end ELSE int_end

\* \s*(number)\s* at position i: where the number starts and ends and where
\* the match ends, end = 0 for no match.
spaced_number(cs, i) ==
    LET from == IF i = 0 THEN 0 ELSE skip_ws(cs, i)
        to == number_end(cs, from)
    IN  [from |-> from, to |-> to, end |-> IF to = 0 THEN 0 ELSE skip_ws(cs, to)]

\* COORD_RE.fullmatch(cs): the texts of the four groups, << >> for no match.
coord_re(cs) ==
    LET x == spaced_number(cs, literal(cs, literal(cs, 1, "{"), "{"))
        y == spaced_number(cs, literal(cs, x.end, ","))
        open == literal(cs, literal(cs, y.end, "}"), ",")
        w == spaced_number(cs, literal(cs, IF open = 0 THEN 0 ELSE skip_ws(cs, open), "{"))
        h == spaced_number(cs, literal(cs, w.end, ","))
        end == literal(cs, literal(cs, h.end, "}"), "}")
    IN  IF end = Len(cs) + 1
        THEN <<SubSeq(cs, x.from, x.to - 1), SubSeq(cs, y.from, y.to - 1),
               SubSeq(cs, w.from, w.to - 1), SubSeq(cs, h.from, h.to - 1)>>
        ELSE << >>

\* float(text) of a text the number pattern matches, with one digit after
\* the point at most.
float_of_text(t) ==
    LET neg == t[1] = "-"
        body == IF neg THEN Tail(t) ELSE t
        point == {i \in 1..Len(body) : body[i] = "."}
    IN  IF point = {} THEN FloatOf(neg, 160 * natural(body))
        ELSE LET p == CHOOSE i \in point : TRUE
             IN  FloatOf(neg, 160 * natural(SubSeq(body, 1, p - 1))
                              + 16 * DigitValue(body[p + 1]))

\* _parse_coordinate_rect(coordinate) of a text given by its characters.
parse_coordinate_rect_text(cs) ==
    LET groups == coord_re(text_strip(cs))
    IN  IF groups = << >>
        THEN ArgErr("rpc_error", "coordinate must look like {{x, y}, {w, h}}")
        ELSE ArgOk([i \in 1..4 |-> float_of_text(groups[i])])

(***************************************************************************)
(* Bounds and the hierarchy text.  The bounds attribute of a node is a text *)
(* given by its characters; an XML document is the sequence of its start   *)
(* and end tags.                                                           *)
(***************************************************************************)
\* \-?\d+ at position i: the position after the integer, 0 for no match.
integer_end(cs, i) ==
    LET start == IF literal(cs, i, "-") = 0 THEN i ELSE i + 1
        int_end == skip_digits(cs, start)
    IN  IF i = 0 \/ int_end = start THEN 0 ELSE int_end

\* BOUNDS_RE.fullmatch(cs): the texts of the four groups, << >> for no match.
bounds_re(cs) ==
    LET x1 == literal(cs, 1, "[")
        x1_end == integer_end(cs, x1)
        y1 == literal(cs, x1_end, ",")
        y1_end == integer_end(cs, y1)
        x2 == literal(cs, literal(cs, y1_end, "]"), "[")
        x2_end == integer_end(cs, x2)
        y2 == literal(cs, x2_end, ",")
        y2_end == integer_end(cs, y2)
        end == literal(cs, y2_end, "]")
    IN  IF end = Len(cs) + 1
        THEN <<SubSeq(cs, x1, x1_end - 1), SubSeq(cs, y1, y1_end - 1),
               SubSeq(cs, x2, x2_end - 1), SubSeq(cs, y2, y2_end - 1)>>
        ELSE << >>

\* max(0.0, a - b): the first argument unless the second is greater.
max_zero(a, b) ==
    IF Signed(a) - Signed(b) > 0 THEN FloatOf(FALSE, Signed(a) - Signed(b))
    ELSE FloatOf(FALSE, 0)

\* Mutant: the corners are subtracted and nothing more.
bounds_to_rect_unclamped(bounds) ==
    LET groups == bounds_re(text_strip(bounds))
    IN  IF groups = << >> THEN << >>
        ELSE LET x == [i \in 1..4 |-> float_of_text(groups[i])]
                 w == Signed(x[3]) - Signed(x[1])
                 h == Signed(x[4]) - Signed(x[2])
             IN  <<x[1], x[2], FloatOf(w < 0, IF w < 0 THEN -w ELSE w),
                   FloatOf(h < 0, IF h < 0 THEN -h ELSE h)>>

\* _bounds_to_rect(bounds): the rect (x1, y1, width, height), << >> for None.
bounds_to_rect(bounds) ==
    LET groups == bounds_re(text_strip(bounds))
    IN  IF groups = << >> THEN << >>
        ELSE LET x == [i \in 1..4 |-> float_of_text(groups[i])]
             IN  <<x[1], x[2], max_zero(x[3], x[1]), max_zero(x[4], x[2])>>

\* A start tag with its attributes and an end tag.
StartTag(tag, attrs) == [start |-> TRUE, tag |-> tag, attrs |-> attrs]
EndTag(tag) == [start |-> FALSE, tag |-> tag, attrs |-> EmptyDict]

\* ET.fromstring(xml_text): the elements in document order, each with the
\* index of its parent (0 for the root); ok is FALSE for ET.ParseError (an
\* end tag that closes nothing or another element, an element left open, no
\* element, a second root).
RECURSIVE et_parse(_, _, _, _)
et_parse(tags, i, open, elems) ==
    IF i > Len(tags)
    THEN [ok |-> open = << >> /\ elems # << >>, elems |-> elems]
    ELSE IF tags[i].start
         THEN IF open = << >> /\ elems # << >>
              THEN [ok |-> FALSE, elems |-> elems]
              ELSE et_parse(tags, i + 1, Append(open, Len(elems) + 1),
                            Append(elems, [tag |-> tags[i].tag, attrs |-> tags[i].attrs,
                                           parent |-> IF open = << >> THEN 0
                                                      ELSE open[Len(open)]]))
         ELSE IF open = << >> \/ elems[open[Len(open)]].tag # tags[i].tag
              THEN [ok |-> FALSE, elems |-> elems]
              ELSE et_parse(tags, i + 1, SubSeq(open, 1, Len(open) - 1), elems)

ET_fromstring(tags) == et_parse(tags, 1, << >>, << >>)

\* list(node): the children of element i, in document order.
children(elems, i) ==
    SelectSeq([j \in 1..Len(elems) |-> j], LAMBDA j : elems[j].parent = i)

\* (attrs.get(key) or "").strip()
attr_strip(attrs, key) == text_strip(Get(attrs, key, << >>))

\* cs.split(".")[-1]
last_segment(cs) ==
    LET dots == {i \in 1..Len(cs) : cs[i] = "."}
    IN  IF dots = {} THEN cs
        ELSE SubSeq(cs, (CHOOSE i \in dots : \A j \in dots : j <= i) + 1, Len(cs))

NodeName == <<"N", "o", "d", "e">>

\* One part of a node's line: its field and the text after it.
Part(field, text) == [field |-> field, text |-> text]

\* The parts of the line of a node, and the line at a depth: the spaces
\* before the parts and the parts that ", ".join puts after them.
node_parts(attrs) ==
    LET last == last_segment(Get(attrs, "class", NodeName))
        class_name == IF last = << >> THEN NodeName ELSE last
        text == attr_strip(attrs, "text")
        desc == attr_strip(attrs, "content-desc")
        identifier == attr_strip(attrs, "resource-id")
        bounds == attr_strip(attrs, "bounds")
        clickable == attr_strip(attrs, "clickable")
        label == IF text # << >> THEN text ELSE desc
        rect == bounds_to_rect(bounds)
    IN  <<Part("", class_name)>>
        \o (IF label # << >> THEN <<Part("label", label)>> ELSE << >>)
        \o (IF desc # << >> /\ desc # label THEN <<Part("value", desc)>> ELSE << >>)
        \o (IF identifier # << >> THEN <<Part("identifier", identifier)>> ELSE << >>)
        \o (IF rect # << >>
            THEN <<Part("frame", format_rect(rect[1], rect[2], rect[3], rect[4]))>>
            ELSE << >>)
        \o (IF clickable = <<"t", "r", "u", "e">> THEN <<Part("clickable", clickable)>>
            ELSE << >>)

node_line(attrs, depth) == [indent |-> 2 * depth, parts |-> node_parts(attrs)]

\* Mutant: the depth grows with every element, node or not.
RECURSIVE walk_every_element(_, _, _)
walk_every_element(elems, i, depth) ==
    LET is_node == elems[i].tag = "node"
        kids == children(elems, i)
        below == [k \in 1..Len(kids) |-> walk_every_element(elems, kids[k], depth + 1)]
        concat[k \in 0..Len(kids)] == IF k = 0 THEN << >> ELSE concat[k - 1] \o below[k]
    IN  (IF is_node THEN <<node_line(elems[i].attrs, depth)>> ELSE << >>)
        \o concat[Len(kids)]

\* walk(node, depth): the lines it appends.
RECURSIVE walk(_, _, _)
walk(elems, i, depth) ==
    LET is_node == elems[i].tag = "node"
        kids == children(elems, i)
        below == [k \in 1..Len(kids) |->
                    walk(elems, kids[k], IF is_node THEN depth + 1 ELSE depth)]
        concat[k \in 0..Len(kids)] == IF k = 0 THEN << >> ELSE concat[k - 1] \o below[k]
    IN  (IF is_node THEN <<node_line(elems[i].attrs, depth)>> ELSE << >>)
        \o concat[Len(kids)]

Header == [indent |-> 0, parts |-> <<Part("", <<"H", "i", "e", "r", "a", "r", "c", "h", "y">>)>>]

\* _format_tree(xml_text): the lines that "\n".join puts together, or the
\* RPCError of a document that does not parse.
format_tree(tags) ==
    LET root == ET_fromstring(tags)
    IN  IF ~root.ok THEN ArgErr("rpc_error", "failed to parse UI hierarchy XML")
        ELSE ArgOk(<<Header>> \o walk(root.elems, 1, 0))

\* Mutant: one segment is enough.
package_re_one_segment(cs) ==
    /\ Len(cs) >= 1
    /\ cs[1] \in Letters
    /\ \A i \in 1..Len(cs) : cs[i] \in WordChars \cup {"."}
    /\ \A i \in 1..Len(cs) : cs[i] = "." => (i < Len(cs) /\ cs[i + 1] \in Letters)

\* PACKAGE_RE.fullmatch(cs) is not None:
\* ^[A-Za-z][A-Za-z0-9_]*(?:\.[A-Za-z][A-Za-z0-9_]*)+$
package_re(cs) ==
    /\ Len(cs) >= 1
    /\ cs[1] \in Letters
    /\ \A i \in 1..Len(cs) : cs[i] \in WordChars \cup {"."}
    /\ \E i \in 1..Len(cs) : cs[i] = "."
    /\ \A i \in 1..Len(cs) : cs[i] = "." => (i < Len(cs) /\ cs[i + 1] \in Letters)

\* str(value) of the identifier values of the model.
str_of(value) ==
    CASE value.t = "text" -> value.v
      [] value.t = "int" /\ value.v = 0 -> <<"0">>
      [] value.t = "int" /\ value.v = 1 -> <<"1">>
      [] value.t = "bool" -> <<"B", "a", "a", "a">>
      [] OTHER -> <<"!">>

\* params.get("bundle_identifier") or params.get("package_name") or ""
identifier_of(params) ==
    LET a == Get(params, "bundle_identifier", Null)
        b == Get(params, "package_name", Null)
    IN  IF truthy(a) THEN a ELSE IF truthy(b) THEN b ELSE Text(<< >>)

\* proc.returncode != 0 of the invocation made next, for the invocations made
\* with check=False: the tool has failed and has printed no output.
nonzero(st, dev) == dev.fail_at = Len(st.log) + 1 /\ dev.how = "fail"

\* The monkey fallback of _launch_package.
launch_fallback(st, package, dev) ==
    LET monkey == adb(st, Monkey(package), FALSE, dev)
    IN  IF monkey.err = "none" /\ (nonzero(st, dev) \/ dev.monkey # "ok")
        THEN Raise(monkey, "rpc_error", "failed to open app")
        ELSE monkey

\* _launch_package(package)
launch_package(st, package, dev) ==
    LET resolved == adb(st, ResolveActivity(package), FALSE, dev)
    IN  IF resolved.err # "none" THEN resolved
        ELSE IF ~nonzero(st, dev) /\ dev.resolve = "component"
        THEN LET started == adb(resolved, AmStart(package), FALSE, dev)
             IN  IF started.err # "none" \/ (~nonzero(resolved, dev) /\ dev.start = "ok")
                 THEN started
                 ELSE launch_fallback(started, package, dev)
        ELSE launch_fallback(resolved, package, dev)

\* _foreground_package(): the package of the focused window, "unknown" for
\* None when the output names none.
foreground_package(st, dev) == dev.foreground

\* foreground = self._foreground_package() and the test that follows it.
foreground_check(st, dev) ==
    LET asked == adb(st, Dumpsys, FALSE, dev)
    IN  IF asked.err = "none" /\ foreground_package(st, dev) = "other"
        THEN Raise(asked, "rpc_error", "failed to foreground app")
        ELSE asked

open_app(params, key, dev) ==
    LET package == text_strip(str_of(identifier_of(params)))
    IN  IF package = << >> THEN RaisedRPCError("bundle_identifier is required", key)
        ELSE IF ~package_re(package)
        THEN RaisedRPCError("bundle_identifier is not a valid Android package name", key)
        ELSE LET st == current_tree_of(
                          foreground_check(launch_package(Running, package, dev), dev),
                          dev)
             IN  Finish(st, "tree", WithTree(st, [NoFields EXCEPT !.package = package]),
                        key)

\* Mutant: the key is stored before it is tested for being empty.
set_api_key_stores_first(params, key) ==
    IF "api_key" \notin DOMAIN params
    THEN RaisedRPCError("missing parameter 'api_key'", key)
    ELSE IF params["api_key"].t # "str"
    THEN RaisedRPCError("parameter 'api_key' must be a string", key)
    ELSE IF str_strip(params["api_key"].v) = ""
    THEN RaisedRPCError("api_key is required", Str(str_strip(params["api_key"].v)))
    ELSE Returned("ok", FALSE, Str(str_strip(params["api_key"].v)))

set_api_key(params, key) ==
    IF "api_key" \notin DOMAIN params
    THEN RaisedRPCError("missing parameter 'api_key'", key)
    ELSE IF params["api_key"].t # "str"
    THEN RaisedRPCError("parameter 'api_key' must be a string", key)
    ELSE IF str_strip(params["api_key"].v) = ""
    THEN RaisedRPCError("api_key is required", key)
    ELSE Returned("ok", FALSE, Str(str_strip(params["api_key"].v)))

submit_prompt(key) ==
    IF key = Null
    THEN RaisedRPCError("No API key found", key)
    ELSE RaisedRPCError("submit_prompt is not yet supported on the Android bridge", key)

get_screen_image(key, dev) ==
    Finish(screen_png(Running, dev), "screenshot", NoFields, key)

get_context(key, dev) ==
    LET tree == current_tree_of(Running, dev)
    IN  Finish(screen_png(tree, dev), "context", WithTree(tree, NoFields), key)

\* AndroidDeviceBridge.handle(method, params) with self.api_key = key.
handle(method, params, key, dev) ==
    CASE method = "get_tree" -> current_tree(dev, key)
      [] method = "get_screen_image" -> get_screen_image(key, dev)
      [] method = "get_context" -> get_context(key, dev)
      [] method = "tap" -> tap(params, key, dev)
      [] method = "tap_element" -> tap_element(params, key, dev)
      [] method = "enter_text" -> enter_text(params, key, dev)
      [] method = "scroll" -> scroll(params, key, dev)
      [] method = "swipe" -> swipe(params, key, dev)
      [] method = "open_app" -> open_app(params, key, dev)
      [] method = "set_api_key" -> set_api_key(params, key)
      [] method = "submit_prompt" -> submit_prompt(key)
      [] method = "stop" -> Returned("empty", TRUE, key)
      [] OTHER -> RaisedRPCError("Unsupported command", key)

(***************************************************************************)
(* AndroidRPCServer._handle_line up to the call of the dispatcher: what is *)
(* to be sent, with which id, and whether the dispatcher was called.       *)
(***************************************************************************)
\* Mutant: the id of the request is not read.
ReqIdIgnored(obj) == Null

\* req_id = obj.get("id", None)
ReqIdOf(obj) == Get(obj, "id", Null)

\* waits: the dispatcher made adb invocations, each one a subprocess.run the
\* thread waited in.
Outcome(req_id, o, dispatched) ==
    [req_id |-> req_id, kind |-> o.kind, value |-> o.value, stop |-> o.stop,
     api_key |-> o.api_key, dispatched |-> dispatched, stopping |-> FALSE,
     waits |-> o.log # << >>]

handle_line(line, key, dev) ==
    LET j == json_loads(line)
    IN  IF ~j.valid
        THEN Outcome(Null, RaisedException("JSONDecodeError", key), FALSE)
        ELSE IF j.val.t # "dict"
        THEN Outcome(Null, RaisedRPCError("Invalid JSON payload", key), FALSE)
        ELSE LET obj == j.val.v
                 req_id == ReqIdOf(obj)
                 method == Get(obj, "method", Null)
                 params == Get(obj, "params", Obj(EmptyDict))
             IN  IF method = Null
                 THEN Outcome(req_id, RaisedRPCError("Missing 'method' field", key), FALSE)
                 ELSE IF method.t # "str"
                 THEN Outcome(req_id,
                              RaisedRPCError("Field 'method' must be a string", key), FALSE)
                 ELSE IF params.t # "dict"
                 THEN Outcome(req_id,
                              RaisedRPCError("Field 'params' must be an object", key), FALSE)
                 ELSE Outcome(req_id, handle(method.v, params.v, key, dev), TRUE)

\* The payloads of _send: {"id", "result"} and {"id", "error": {"message"}}.
ResultPayload(req_id, result) == [id |-> req_id, result |-> result]

\* Mutant: an error Response that also carries a result field.
ErrorPayloadWithResult(req_id, message) ==
    [id |-> req_id, result |-> "", error |-> [message |-> message]]

ErrorPayload(req_id, message) == [id |-> req_id, error |-> [message |-> message]]

\* str(exc) of the two except clauses of _handle_line.
ErrorMessage(kind, value) ==
    IF kind = "rpc_error" THEN <<value>> ELSE <<"Internal error: ", value>>

(***************************************************************************)
(* State of the Bridge Listener (AndroidRPCServer), its connections and    *)
(* their clients.                                                          *)
(***************************************************************************)
VARIABLES
    stop_event,     \* AndroidRPCServer._stop_event
    server_sock,    \* the listening socket: "open" or "closed"
    accept_pc,      \* the main thread: "check", "accept" (the accept loop of
                    \* start()), "stopped" (start() returned), "exited"
    backlog,        \* connections established and not yet accepted
    api_key,        \* AndroidDeviceBridge.api_key of the server's one bridge
    cl,             \* the client's end of a connection: "idle", "open", "closed"
    peer,           \* addr[0] of a connection
    net,            \* bytes that arrived on a connection and are not yet read
    pc,             \* where the connection's thread stands in _handle_connection
                    \* ("in_handle": waiting inside bridge.handle)
    buffer,         \* the thread's buffer
    line,           \* the line _handle_line is working on
    pending,        \* what _handle_line is about to send; stopping is history:
                    \* the stop flag was set when the dispatcher was called
    out,            \* the Response lines written to a connection, in order
    handled,        \* history: the lines handed to _handle_line, in order
    lastSet,        \* history: the key the connection's last set_api_key stored
    vocab,          \* the segments the clients send
    clients,        \* the connections that clients open
    sends           \* segments the clients may still send

lvars == <<stop_event, server_sock, accept_pc, backlog, api_key, cl, peer, net, pc,
           buffer, line, pending, out, handled, lastSet, vocab, clients, sends>>

(***************************************************************************)
(* One request handed to the Automation Dispatcher on its own.             *)
(***************************************************************************)
VARIABLES
    d_pc,           \* "off", "idle" (no request yet), "running" (handle waits
                    \* in an adb invocation), "done" (handle returned)
    d_key,          \* AndroidDeviceBridge.api_key of the bridge
    d_method,       \* the method of the request
    d_params,       \* the params of the request
    d_dev,          \* the device environment the request ran against
    d_res,          \* what handle returned or raised, with the invocations made
    d_rt            \* a rect (x, y, w, h), _format_rect of it, _parse_coordinate_rect
                    \* of that text, and _format_rect of what was parsed; or a
                    \* bounds text with _bounds_to_rect of it and a document
                    \* with _format_tree of it

dvars == <<d_pc, d_key, d_method, d_params, d_dev, d_res, d_rt>>

(***************************************************************************)
(* The Connection Broker (forward_rpc_localhost.py).  A pairing has the    *)
(* local socket "a" (the client's) and the remote socket "b"; the bytes of *)
(* a direction are numbered 1, 2, ... in the order they arrive.            *)
(***************************************************************************)
\* Bytes that arrive at the broker's sockets, in total.
MaxBytes == 2

BConns == {1, 2}
Sides == {"a", "b"}
\* Mutant: the bytes go back to the socket they came from.
SameSide(s) == s
Other(s) == IF s = "a" THEN "b" ELSE "a"

\* The device identifier given with --udid.
Udid == "U"

\* What devicectl lists for the device (hostnames ending .coredevice.local).
DevicectlOutputs == {<< >>, <<"h1">>, <<"U.coredevice.local", "h1">>}

\* What the usbmux strategy meets: pymobiledevice3 cannot be imported,
\* select_device returns None, connect raises, connect returns a socket.
UsbmuxOutcomes == {"absent", "notfound", "failed", "ok"}

VARIABLES
    b_pc,       \* a connection's thread: "none", "candidates", "connect", "usbmux",
                \* "pump", "closed"
    b_peer,     \* the address accept() returned with the connection
    b_cands,    \* connect_remote: the hostnames still to try
    b_tried,    \* history: the hostnames tried, in order, then "usbmux" for the lookup
    b_via,      \* the second value connect_remote returned
    b_open,     \* which of the pairing's sockets the broker holds open
    b_rd,       \* bytes readable on each socket
    b_eof,      \* the peer of the socket has closed
    b_wr,       \* history: bytes written to each socket
    b_ready,    \* pump: the sockets select() returned and recv has yet to visit
    b_arrived,  \* bytes that arrived so far
    b_clients,  \* the local connections that clients open
    b_bytes     \* bytes that may arrive in total

bvars == <<b_pc, b_peer, b_cands, b_tried, b_via, b_open, b_rd, b_eof, b_wr, b_ready,
           b_arrived, b_clients, b_bytes>>

NoSides == [s \in Sides |-> << >>]

InitBroker(cs, n) ==
    /\ b_pc = [k \in BConns |-> "none"]
    /\ b_peer = [k \in BConns |-> "127.0.0.1"]
    /\ b_cands = [k \in BConns |-> << >>]
    /\ b_tried = [k \in BConns |-> << >>]
    /\ b_via = [k \in BConns |-> ""]
    /\ b_open = [k \in BConns |-> {}]
    /\ b_rd = [k \in BConns |-> NoSides]
    /\ b_eof = [k \in BConns |-> {}]
    /\ b_wr = [k \in BConns |-> NoSides]
    /\ b_ready = [k \in BConns |-> << >>]
    /\ b_arrived = 0
    /\ b_clients = cs
    /\ b_bytes = n

NoPending ==
    [req_id |-> Null, kind |-> "none", value |-> "", stop |-> FALSE,
     api_key |-> Null, dispatched |-> FALSE, stopping |-> FALSE, waits |-> FALSE]

\* Mutant: every peer passes.
IsLoopbackAny(addr) == addr = addr

\* The peer test of _handle_connection.
IsLoopback(addr) == addr \in {"127.0.0.1", "::1"}

\* The texts a client also sends without their newline (a line that reaches
\* the listener in two pieces).
SplitLines == {"bad", "tree", "stop"}

\* What a client sends at once: a whole line, a text without its newline,
\* a newline or a whitespace byte.
AllSegments ==
    {<<l, LF>> : l \in Lines} \cup {<<l>> : l \in SplitLines} \cup {<<LF>>, <<SP>>}

\* The two-connection specification sends whole lines of the session requests.
SessionSegments == {<<l, LF>> : l \in SessionLines}

\* The listener process runs: main() has not returned.  The connection
\* threads are daemon threads, they end with the process.
Alive == accept_pc # "exited"

\* The connection's socket is closed on the server's side.
ServerClosed(c) == pc[c] \in {"closed", "crashed"} \/ (~Alive /\ pc[c] # "none")

\* The connection was reset before it was accepted: the listening socket
\* went with the connection waiting.
Reset(c) == cl[c] = "open" /\ pc[c] = "none" /\ c \notin backlog

\* The client's sendall returns: its end is open, the connection was not
\* reset, and a connection closed by the server had no bytes unread and has
\* been sent nothing since.
CanSend(c) ==
    /\ cl[c] = "open" /\ ~Reset(c)
    /\ ServerClosed(c) => net[c] = << >>

\* sendall() succeeds while the client is there; once the client has closed
\* its end it may also raise BrokenPipeError / ConnectionResetError.
SendOutcomes(c) == IF cl[c] = "closed" THEN {TRUE, FALSE} ELSE {TRUE}

InitListener(v, cs, n) ==
    /\ stop_event = FALSE
    /\ server_sock = "open"
    /\ accept_pc = "check"
    /\ backlog = {}
    /\ api_key = Null
    /\ cl = [c \in Conns |-> "idle"]
    /\ peer = [c \in Conns |-> "127.0.0.1"]
    /\ net = [c \in Conns |-> << >>]
    /\ pc = [c \in Conns |-> "none"]
    /\ buffer = [c \in Conns |-> << >>]
    /\ line = [c \in Conns |-> << >>]
    /\ pending = [c \in Conns |-> NoPending]
    /\ out = [c \in Conns |-> << >>]
    /\ handled = [c \in Conns |-> << >>]
    /\ lastSet = [c \in Conns |-> Null]
    /\ vocab = v
    /\ clients = cs
    /\ sends = n

(***************************************************************************)
(* The clients.                                                            *)
(***************************************************************************)
\* connect() returns: the connection is established by the kernel and waits
\* to be accepted.  That also happens after stop() has closed the socket
\* while the main thread waits inside server.accept(): the wait keeps the
\* listening socket in the kernel until it ends.  Such a connection is never
\* accepted; it is reset when the wait ends (AcceptError, AcceptTimeout).
\* With the socket closed and nobody waiting on it the connection is refused.
ClientConnect(c, addr) ==
    /\ c \in clients /\ cl[c] = "idle"
    /\ server_sock = "closed" => accept_pc = "accept"
    /\ peer' = [peer EXCEPT ![c] = addr]
    /\ backlog' = backlog \cup {c}
    /\ cl' = [cl EXCEPT ![c] = "open"]
    /\ UNCHANGED <<stop_event, server_sock, accept_pc, api_key, net, pc, buffer, line,
                   pending, out, handled, lastSet, vocab, clients, sends,
                   bvars, dvars>>

\* sock.sendall(data) of the client returns: the bytes are on their way.
\* On a connection the server has closed (or whose process has exited) the
\* first sendall still returns and nothing reads what it sent; after it, and
\* on a connection closed with bytes unread, sendall raises.
ClientSend(c, seg) ==
    /\ CanSend(c)
    /\ sends > 0
    /\ net' = [net EXCEPT ![c] = @ \o seg]
    /\ sends' = sends - 1
    /\ UNCHANGED <<stop_event, server_sock, accept_pc, backlog, api_key, cl, peer, pc,
                   buffer, line, pending, out, handled, lastSet, vocab, clients,
                   bvars, dvars>>

\* sock.close() of the client, whenever it likes: also on a connection the
\* server has closed and after the server's process has exited.
ClientClose(c) ==
    /\ cl[c] = "open"
    /\ cl' = [cl EXCEPT ![c] = "closed"]
    /\ UNCHANGED <<stop_event, server_sock, accept_pc, backlog, api_key, peer, net, pc,
                   buffer, line, pending, out, handled, lastSet, vocab, clients, sends,
                   bvars, dvars>>

(***************************************************************************)
(* AndroidRPCServer.start: the accept loop.                                *)
(***************************************************************************)
\* while not self._stop_event.is_set(); the finally clause closes the socket,
\* which drops the connections that wait to be accepted.
AcceptLoopCheck ==
    /\ accept_pc = "check"
    /\ IF stop_event
       THEN accept_pc' = "stopped" /\ server_sock' = "closed" /\ backlog' = {}
       ELSE accept_pc' = "accept" /\ UNCHANGED <<server_sock, backlog>>
    /\ UNCHANGED <<stop_event, api_key, cl, peer, net, pc, buffer, line,
                   pending, out, handled, lastSet, vocab, clients, sends,
                   bvars, dvars>>

\* server.accept() returns a connection; its thread is started.
Accept(c) ==
    /\ accept_pc = "accept" /\ server_sock = "open"
    /\ c \in backlog
    /\ backlog' = backlog \ {c}
    /\ pc' = [pc EXCEPT ![c] = "start"]
    /\ accept_pc' = "check"
    /\ UNCHANGED <<stop_event, server_sock, api_key, cl, peer, net, buffer, line,
                   pending, out, handled, lastSet, vocab, clients, sends,
                   bvars, dvars>>

\* server.accept() raises socket.timeout after 0.5 s: continue.  On the
\* listening socket that is when no connection waits.  A wait that stop()
\* closed the socket under ends in socket.timeout as well when the number of
\* the descriptor has been taken by another file of the process meanwhile;
\* the listening socket goes with the wait and the connections made to it
\* are reset.
AcceptTimeout ==
    /\ accept_pc = "accept"
    /\ server_sock = "open" => backlog = {}
    /\ accept_pc' = "check"
    /\ backlog' = {}
    /\ UNCHANGED <<stop_event, server_sock, api_key, cl, peer, net, pc, buffer,
                   line, pending, out, handled, lastSet, vocab, clients, sends,
                   bvars, dvars>>

\* server.accept() raises OSError on the socket stop() closed: break.  The
\* connections made to the closed socket during the wait are reset.
AcceptError ==
    /\ accept_pc = "accept" /\ server_sock = "closed"
    /\ accept_pc' = "stopped"
    /\ backlog' = {}
    /\ UNCHANGED <<stop_event, server_sock, api_key, cl, peer, net, pc, buffer,
                   line, pending, out, handled, lastSet, vocab, clients, sends,
                   bvars, dvars>>

\* start() has returned: main returns 0 and the interpreter exits, which ends
\* the daemon threads of the connections wherever they stand.
ProcessExit ==
    /\ accept_pc = "stopped"
    /\ accept_pc' = "exited"
    /\ UNCHANGED <<stop_event, server_sock, backlog, api_key, cl, peer, net, pc, buffer,
                   line, pending, out, handled, lastSet, vocab, clients, sends,
                   bvars, dvars>>

(***************************************************************************)
(* AndroidRPCServer._handle_connection: one thread per accepted connection.*)
(***************************************************************************)
\* peer = addr[0]; a peer that is not loopback is closed at once.
OriginCheck(c) ==
    /\ Alive
    /\ pc[c] = "start"
    /\ pc' = [pc EXCEPT ![c] = IF IsLoopback(peer[c]) THEN "loop" ELSE "closed"]
    /\ UNCHANGED <<stop_event, server_sock, accept_pc, backlog, api_key, cl, peer, net,
                   buffer, line, pending, out, handled, lastSet, vocab, clients, sends,
                   bvars, dvars>>

\* while not self._stop_event.is_set(); the finally clause closes conn.
WhileCheck(c) ==
    /\ Alive
    /\ pc[c] = "loop"
    /\ pc' = [pc EXCEPT ![c] = IF stop_event THEN "closed" ELSE "recv"]
    /\ UNCHANGED <<stop_event, server_sock, accept_pc, backlog, api_key, cl, peer, net,
                   buffer, line, pending, out, handled, lastSet, vocab, clients, sends,
                   bvars, dvars>>

\* Mutant: a connection is read only while no other connection waits in
\* recv, as if the connections were served one after the other.
RecvOneAtATime(c) ==
    /\ Alive
    /\ pc[c] = "recv"
    /\ \A d \in Conns \ {c} : pc[d] # "recv"
    /\ net[c] # << >>
    /\ buffer' = [buffer EXCEPT ![c] = @ \o net[c]]
    /\ net' = [net EXCEPT ![c] = << >>]
    /\ pc' = [pc EXCEPT ![c] = "extract"]
    /\ UNCHANGED <<stop_event, server_sock, accept_pc, backlog, api_key, cl, peer, line,
                   pending, out, handled, lastSet, vocab, clients, sends,
                   bvars, dvars>>

\* chunk = conn.recv(65536) returns the bytes that arrived; buffer.extend(chunk).
Recv(c) ==
    /\ Alive
    /\ pc[c] = "recv"
    /\ net[c] # << >>
    /\ buffer' = [buffer EXCEPT ![c] = @ \o net[c]]
    /\ net' = [net EXCEPT ![c] = << >>]
    /\ pc' = [pc EXCEPT ![c] = "extract"]
    /\ UNCHANGED <<stop_event, server_sock, accept_pc, backlog, api_key, cl, peer, line,
                   pending, out, handled, lastSet, vocab, clients, sends,
                   bvars, dvars>>

\* conn.recv returns b"" once the client has closed its end: return.
RecvEof(c) ==
    /\ Alive
    /\ pc[c] = "recv"
    /\ net[c] = << >> /\ cl[c] = "closed"
    /\ pc' = [pc EXCEPT ![c] = "closed"]
    /\ UNCHANGED <<stop_event, server_sock, accept_pc, backlog, api_key, cl, peer, net,
                   buffer, line, pending, out, handled, lastSet, vocab, clients, sends,
                   bvars, dvars>>

\* conn.recv raises ConnectionResetError once the client has closed its end
\* by a reset (a close with a Response unread, an abortive close): nothing
\* catches it, the finally clause closes conn and the thread ends by the
\* exception.
RecvError(c) ==
    /\ Alive
    /\ pc[c] = "recv"
    /\ net[c] = << >> /\ cl[c] = "closed"
    /\ pc' = [pc EXCEPT ![c] = "crashed"]
    /\ UNCHANGED <<stop_event, server_sock, accept_pc, backlog, api_key, cl, peer, net,
                   buffer, line, pending, out, handled, lastSet, vocab, clients, sends,
                   bvars, dvars>>

\* One turn of the inner loop: no newline, break; a blank line, continue;
\* otherwise the line is handed to _handle_line.
Extract(c) ==
    /\ Alive
    /\ pc[c] = "extract"
    /\ LET nl == find_nl(buffer[c])
           text == strip(SubSeq(buffer[c], 1, nl - 1))
       IN  IF nl = 0
           THEN /\ pc' = [pc EXCEPT ![c] = "loop"]
                /\ UNCHANGED <<buffer, line, handled>>
           ELSE /\ buffer' = [buffer EXCEPT ![c] = SubSeq(@, nl + 1, Len(@))]
                /\ IF text = << >>
                   THEN UNCHANGED <<pc, line, handled>>
                   ELSE /\ pc' = [pc EXCEPT ![c] = "handle"]
                        /\ line' = [line EXCEPT ![c] = text]
                        /\ handled' = [handled EXCEPT ![c] = Append(@, text)]
    /\ UNCHANGED <<stop_event, server_sock, accept_pc, backlog, api_key, cl, peer, net,
                   pending, out, lastSet, vocab, clients, sends,
                   bvars, dvars>>

(***************************************************************************)
(* AndroidRPCServer._handle_line.                                          *)
(***************************************************************************)
\* Where _handle_line goes after its try block up to bridge.handle.
AfterHandle(kind) == IF kind = "result" THEN "send_result" ELSE "send_error"

\* The try block up to the call bridge.handle(method, params), and the call
\* itself when it makes no adb invocation.  A request that reaches the
\* device leaves the thread waiting in subprocess.run inside bridge.handle,
\* while the other threads run.
HandleLine(c, dev) ==
    /\ Alive
    /\ pc[c] = "handle"
    /\ LET o == handle_line(line[c], api_key, dev)
       IN  IF o.waits
           THEN /\ pending' = [pending EXCEPT ![c] =
                                 [NoPending EXCEPT !.req_id = o.req_id,
                                                   !.dispatched = TRUE,
                                                   !.stopping = stop_event,
                                                   !.waits = TRUE]]
                /\ pc' = [pc EXCEPT ![c] = "in_handle"]
                /\ UNCHANGED <<api_key, lastSet>>
           ELSE /\ pending' = [pending EXCEPT ![c] = [o EXCEPT !.stopping = stop_event]]
                /\ api_key' = o.api_key
                /\ lastSet' = [lastSet EXCEPT ![c] =
                                 IF o.dispatched /\ o.kind = "result" /\ o.value = "ok"
                                 THEN o.api_key ELSE @]
                /\ pc' = [pc EXCEPT ![c] = AfterHandle(o.kind)]
    /\ UNCHANGED <<stop_event, server_sock, accept_pc, backlog, cl, peer, net, buffer,
                   line, out, handled, vocab, clients, sends,
                   bvars, dvars>>

\* bridge.handle(method, params) returns or raises after its adb invocations,
\* on the bridge as the other threads have left it meanwhile.
HandleReturn(c, dev) ==
    /\ Alive
    /\ pc[c] = "in_handle"
    /\ LET o == handle_line(line[c], api_key, dev)
       IN  /\ pending' = [pending EXCEPT ![c] = [o EXCEPT !.stopping = pending[c].stopping]]
           /\ api_key' = o.api_key
           /\ pc' = [pc EXCEPT ![c] = AfterHandle(o.kind)]
    /\ UNCHANGED <<stop_event, server_sock, accept_pc, backlog, cl, peer, net, buffer,
                   line, out, handled, lastSet, vocab, clients, sends,
                   bvars, dvars>>

\* Mutant: a Response overtakes the ones written before it.
WrittenFirst(lines, entry) == <<entry>> \o lines

\* The Response lines of a connection after one more was written.
Written(lines, entry) == Append(lines, entry)

\* Mutant: self.stop() is called whether or not the Response was written.
AfterSendResultStopAnyway(ok, should_stop) ==
    IF should_stop THEN "stop_set" ELSE (IF ok THEN "extract" ELSE "send_error")

\* Where _handle_line goes after self._send(conn, {"id", "result"}).
AfterSendResult(ok, should_stop) ==
    IF ok THEN (IF should_stop THEN "stop_set" ELSE "extract") ELSE "send_error"

\* self._send(conn, {"id": req_id, "result": result}); an exception it
\* raises is caught by "except Exception".
SendResult(c, ok) ==
    /\ Alive
    /\ pc[c] = "send_result"
    /\ ok \in SendOutcomes(c)
    /\ out' = [out EXCEPT ![c] =
                 IF ok
                 THEN Written(@, [line |-> line[c],
                                  payload |-> ResultPayload(pending[c].req_id,
                                                            pending[c].value)])
                 ELSE @]
    /\ pending' = [pending EXCEPT ![c] =
                     IF ok THEN (IF @.stop THEN @ ELSE NoPending)
                     ELSE [@ EXCEPT !.kind = "exception", !.value = "BrokenPipeError"]]
    /\ line' = [line EXCEPT ![c] = IF ok /\ ~pending[c].stop THEN << >> ELSE @]
    /\ pc' = [pc EXCEPT ![c] = AfterSendResult(ok, pending[c].stop)]
    /\ UNCHANGED <<stop_event, server_sock, accept_pc, backlog, api_key, cl, peer, net,
                   buffer, handled, lastSet, vocab, clients, sends,
                   bvars, dvars>>

\* self.stop(): self._stop_event.set()
StopSet(c) ==
    /\ Alive
    /\ pc[c] = "stop_set"
    /\ stop_event' = TRUE
    /\ pc' = [pc EXCEPT ![c] = "stop_close"]
    /\ UNCHANGED <<server_sock, accept_pc, backlog, api_key, cl, peer, net, buffer, line,
                   pending, out, handled, lastSet, vocab, clients, sends,
                   bvars, dvars>>

\* Mutant: stop() clears the flag again after closing the socket.
StopCloseClearsFlag(c) ==
    /\ Alive
    /\ pc[c] = "stop_close"
    /\ server_sock' = "closed"
    /\ stop_event' = FALSE
    /\ backlog' = {}
    /\ pending' = [pending EXCEPT ![c] = NoPending]
    /\ line' = [line EXCEPT ![c] = << >>]
    /\ pc' = [pc EXCEPT ![c] = "extract"]
    /\ UNCHANGED <<accept_pc, api_key, cl, peer, net, buffer, out, handled,
                   lastSet, vocab, clients, sends,
                   bvars, dvars>>

\* self.stop(): self._socket.close()
StopClose(c) ==
    /\ Alive
    /\ pc[c] = "stop_close"
    /\ server_sock' = "closed"
    /\ backlog' = {}
    /\ pending' = [pending EXCEPT ![c] = NoPending]
    /\ line' = [line EXCEPT ![c] = << >>]
    /\ pc' = [pc EXCEPT ![c] = "extract"]
    /\ UNCHANGED <<stop_event, accept_pc, api_key, cl, peer, net, buffer, out, handled,
                   lastSet, vocab, clients, sends,
                   bvars, dvars>>

\* Where the thread goes after the self._send of an except clause: an
\* exception raised there leaves _handle_line and _handle_connection.
AfterSendError(ok) == IF ok THEN "extract" ELSE "crashed"

\* The except clauses: self._send(conn, {"id": req_id, "error": {"message"}}).
SendError(c, ok) ==
    /\ Alive
    /\ pc[c] = "send_error"
    /\ ok \in SendOutcomes(c)
    /\ out' = [out EXCEPT ![c] =
                 IF ok
                 THEN Written(@, [line |-> line[c],
                                  payload |-> ErrorPayload(pending[c].req_id,
                                                ErrorMessage(pending[c].kind,
                                                             pending[c].value))])
                 ELSE @]
    /\ pending' = [pending EXCEPT ![c] = NoPending]
    /\ line' = [line EXCEPT ![c] = << >>]
    /\ pc' = [pc EXCEPT ![c] = AfterSendError(ok)]
    /\ UNCHANGED <<stop_event, server_sock, accept_pc, backlog, api_key, cl, peer, net,
                   buffer, handled, lastSet, vocab, clients, sends,
                   bvars, dvars>>

(***************************************************************************)
(* The Connection Broker: connect_remote, handle_client, pump, main.       *)
(***************************************************************************)
\* The list without the repetitions of its elements, order kept.
Dedup(hs) ==
    LET first == {i \in 1..Len(hs) : \A j \in 1..(i - 1) : hs[j] # hs[i]}
        F[i \in 0..Len(hs)] ==
            IF i = 0 THEN << >>
            ELSE IF i \in first THEN Append(F[i - 1], hs[i]) ELSE F[i - 1]
    IN  F[Len(hs)]

\* udid.endswith(".coredevice.local"), for the identifiers of the model.
IsCoredeviceName(udid) == udid \in {"U.coredevice.local", "h1"}

\* _coredevice_candidates(udid) when devicectl lists the hostnames listed.
coredevice_candidates(udid, listed) ==
    Dedup(<<IF IsCoredeviceName(udid) THEN udid ELSE udid \o ".coredevice.local">>
          \o listed)

\* Mutant: handle_client runs in the accept loop itself, one connection at a
\* time.
BrokerAcceptSerial(k, addr) ==
    /\ k \in b_clients /\ b_pc[k] = "none"
    /\ \A j \in BConns \ {k} : b_pc[j] \in {"none", "closed"}
    /\ b_pc' = [b_pc EXCEPT ![k] = "candidates"]
    /\ b_peer' = [b_peer EXCEPT ![k] = addr]
    /\ b_open' = [b_open EXCEPT ![k] = {"a"}]
    /\ UNCHANGED <<b_cands, b_tried, b_via, b_rd, b_eof, b_wr, b_ready, b_arrived,
                   b_clients, b_bytes, lvars, dvars>>

\* main: client, _ = server.accept(); the thread of handle_client is started.
BrokerAccept(k, addr) ==
    /\ k \in b_clients /\ b_pc[k] = "none"
    /\ b_pc' = [b_pc EXCEPT ![k] = "candidates"]
    /\ b_peer' = [b_peer EXCEPT ![k] = addr]
    /\ b_open' = [b_open EXCEPT ![k] = {"a"}]
    /\ UNCHANGED <<b_cands, b_tried, b_via, b_rd, b_eof, b_wr, b_ready, b_arrived,
                   b_clients, b_bytes, lvars, dvars>>

\* The thread of handle_client: connect_remote calls _coredevice_candidates,
\* which waits for xcrun devicectl (subprocess.run without a timeout) and
\* returns the hostnames to try.
CoredeviceCandidates(k, listed) ==
    /\ b_pc[k] = "candidates"
    /\ b_pc' = [b_pc EXCEPT ![k] = "connect"]
    /\ b_cands' = [b_cands EXCEPT ![k] = coredevice_candidates(Udid, listed)]
    /\ UNCHANGED <<b_peer, b_tried, b_via, b_open, b_rd, b_eof, b_wr, b_ready,
                   b_arrived, b_clients, b_bytes, lvars, dvars>>

\* The second value connect_remote returns from its tunnel strategy.
CoredeviceVia(host) == "coredevice(" \o host \o ")"

\* Mutant: the hostnames that follow one that connected are tried as well.
TryConnectAll(k, connected) ==
    /\ b_pc[k] = "connect"
    /\ b_cands[k] # << >>
    /\ b_tried' = [b_tried EXCEPT ![k] = Append(@, Head(b_cands[k]))]
    /\ b_cands' = [b_cands EXCEPT ![k] = Tail(@)]
    /\ IF connected
       THEN /\ b_via' = [b_via EXCEPT ![k] = CoredeviceVia(Head(b_cands[k]))]
            /\ b_open' = [b_open EXCEPT ![k] = {"a", "b"}]
            /\ b_pc' = [b_pc EXCEPT ![k] = IF Tail(b_cands[k]) = << >>
                                            THEN "pump" ELSE "connect"]
       ELSE /\ b_pc' = [b_pc EXCEPT ![k] =
                           IF Tail(b_cands[k]) # << >> THEN "connect"
                           ELSE IF b_via[k] = "" THEN "usbmux" ELSE "pump"]
            /\ UNCHANGED <<b_via, b_open>>
    /\ UNCHANGED <<b_peer, b_rd, b_eof, b_wr, b_ready, b_arrived, b_clients, b_bytes,
                   lvars, dvars>>

\* connect_remote, strategy 1: _try_connect(host, device_port, timeout) of
\* the next candidate; the first one that connects is returned.
TryConnect(k, connected) ==
    /\ b_pc[k] = "connect"
    /\ b_cands[k] # << >>
    /\ b_tried' = [b_tried EXCEPT ![k] = Append(@, Head(b_cands[k]))]
    /\ IF connected
       THEN /\ b_via' = [b_via EXCEPT ![k] = CoredeviceVia(Head(b_cands[k]))]
            /\ b_open' = [b_open EXCEPT ![k] = {"a", "b"}]
            /\ b_cands' = [b_cands EXCEPT ![k] = Tail(@)]
            /\ b_pc' = [b_pc EXCEPT ![k] = "pump"]
       ELSE /\ b_cands' = [b_cands EXCEPT ![k] = Tail(@)]
            /\ b_pc' = [b_pc EXCEPT ![k] = IF Tail(b_cands[k]) = << >>
                                            THEN "usbmux" ELSE "connect"]
            /\ UNCHANGED <<b_via, b_open>>
    /\ UNCHANGED <<b_peer, b_rd, b_eof, b_wr, b_ready, b_arrived, b_clients, b_bytes,
                   lvars, dvars>>

\* The second value connect_remote returns from its usbmux strategy.
UsbmuxVia(outcome) ==
    CASE outcome = "absent" -> "unavailable(no coredevice hostname, no pymobiledevice3)"
      [] outcome = "notfound" -> "usbmux(device not found)"
      [] outcome = "failed" -> "usbmux(connect failed)"
      [] OTHER -> "usbmux"

\* connect_remote, strategy 2, and what handle_client does with the result:
\* without a remote socket it closes the client, otherwise it starts pump.
TryUsbmux(k, outcome) ==
    /\ b_pc[k] = "usbmux"
    /\ b_tried' = [b_tried EXCEPT ![k] = IF outcome = "absent" THEN @
                                           ELSE Append(@, "usbmux")]
    /\ b_via' = [b_via EXCEPT ![k] = UsbmuxVia(outcome)]
    /\ b_open' = [b_open EXCEPT ![k] = IF outcome = "ok" THEN {"a", "b"} ELSE {}]
    /\ b_pc' = [b_pc EXCEPT ![k] = IF outcome = "ok" THEN "pump" ELSE "closed"]
    /\ UNCHANGED <<b_peer, b_cands, b_rd, b_eof, b_wr, b_ready, b_arrived,
                   b_clients, b_bytes, lvars, dvars>>

\* A byte arrives at a socket of the pairing.
ByteArrives(k, s) ==
    /\ b_pc[k] \in {"candidates", "connect", "usbmux", "pump"}
    /\ s \in b_open[k] /\ s \notin b_eof[k]
    /\ b_arrived < b_bytes
    /\ b_arrived' = b_arrived + 1
    /\ b_rd' = [b_rd EXCEPT ![k][s] = Append(@, b_arrived + 1)]
    /\ UNCHANGED <<b_pc, b_peer, b_cands, b_tried, b_via, b_open, b_eof, b_wr, b_ready,
                   b_clients, b_bytes, lvars, dvars>>

\* The peer of a socket closes its end.
PeerCloses(k, s) ==
    /\ b_pc[k] \in {"candidates", "connect", "usbmux", "pump"}
    /\ s \in b_open[k] /\ s \notin b_eof[k]
    /\ b_eof' = [b_eof EXCEPT ![k] = @ \cup {s}]
    /\ UNCHANGED <<b_pc, b_peer, b_cands, b_tried, b_via, b_open, b_rd, b_wr, b_ready,
                   b_arrived, b_clients, b_bytes, lvars, dvars>>

\* Mutant: select watches the local socket only.
ReadableLocalOnly(k) ==
    SelectSeq(<<"a">>, LAMBDA s : b_rd[k][s] # << >> \/ s \in b_eof[k])

\* The sockets select.select reports readable, in the order of [a, b].
Readable(k) ==
    SelectSeq(<<"a", "b">>, LAMBDA s : b_rd[k][s] # << >> \/ s \in b_eof[k])

\* pump: r, _, _ = select.select(sockets, [], sockets, 1.0) returns sockets.
PumpSelect(k) ==
    /\ b_pc[k] = "pump"
    /\ b_ready[k] = << >>
    /\ Readable(k) # << >>
    /\ b_ready' = [b_ready EXCEPT ![k] = Readable(k)]
    /\ UNCHANGED <<b_pc, b_peer, b_cands, b_tried, b_via, b_open, b_rd, b_eof, b_wr,
                   b_arrived, b_clients, b_bytes, lvars, dvars>>

\* Mutant: at the end of the stream only the socket that ended is closed.
PumpForwardHalfClose(k, sent) ==
    /\ b_pc[k] = "pump"
    /\ b_ready[k] # << >>
    /\ LET s == Head(b_ready[k])
           data == b_rd[k][s]
       IN  IF data = << >>
           THEN /\ sent = 0
                /\ b_pc' = [b_pc EXCEPT ![k] = "closed"]
                /\ b_open' = [b_open EXCEPT ![k] = {Other(s)}]
                /\ b_ready' = [b_ready EXCEPT ![k] = << >>]
                /\ UNCHANGED <<b_rd, b_wr>>
           ELSE /\ sent \in 0..Len(data)
                /\ b_rd' = [b_rd EXCEPT ![k][s] = << >>]
                /\ b_wr' = [b_wr EXCEPT ![k][Other(s)] = @ \o SubSeq(data, 1, sent)]
                /\ IF sent = Len(data)
                   THEN /\ b_ready' = [b_ready EXCEPT ![k] = Tail(@)]
                        /\ UNCHANGED <<b_pc, b_open>>
                   ELSE /\ b_pc' = [b_pc EXCEPT ![k] = "closed"]
                        /\ b_open' = [b_open EXCEPT ![k] = {}]
                        /\ b_ready' = [b_ready EXCEPT ![k] = << >>]
    /\ UNCHANGED <<b_peer, b_cands, b_tried, b_via, b_eof, b_arrived, b_clients, b_bytes,
                   lvars, dvars>>

\* pump: one turn of "for s in r": data = s.recv(65536); no data ends the
\* pump; otherwise other.sendall(data), which writes sent of the bytes and
\* raises unless it wrote them all.  The finally clause closes both sockets.
PumpForward(k, sent) ==
    /\ b_pc[k] = "pump"
    /\ b_ready[k] # << >>
    /\ LET s == Head(b_ready[k])
           data == b_rd[k][s]
       IN  IF data = << >>
           THEN /\ sent = 0
                /\ b_pc' = [b_pc EXCEPT ![k] = "closed"]
                /\ b_open' = [b_open EXCEPT ![k] = {}]
                /\ b_ready' = [b_ready EXCEPT ![k] = << >>]
                /\ UNCHANGED <<b_rd, b_wr>>
           ELSE /\ sent \in 0..Len(data)
                /\ b_rd' = [b_rd EXCEPT ![k][s] = << >>]
                /\ b_wr' = [b_wr EXCEPT ![k][Other(s)] = @ \o SubSeq(data, 1, sent)]
                /\ IF sent = Len(data)
                   THEN /\ b_ready' = [b_ready EXCEPT ![k] = Tail(@)]
                        /\ UNCHANGED <<b_pc, b_open>>
                   ELSE /\ b_pc' = [b_pc EXCEPT ![k] = "closed"]
                        /\ b_open' = [b_open EXCEPT ![k] = {}]
                        /\ b_ready' = [b_ready EXCEPT ![k] = << >>]
    /\ UNCHANGED <<b_peer, b_cands, b_tried, b_via, b_eof, b_arrived, b_clients, b_bytes,
                   lvars, dvars>>

\* pump: s.recv(65536) raises an OSError other than BlockingIOError (the
\* peer has reset the connection); the finally clause closes both sockets.
PumpRecvError(k) ==
    /\ b_pc[k] = "pump"
    /\ b_ready[k] # << >>
    /\ Head(b_ready[k]) \in b_eof[k]
    /\ b_pc' = [b_pc EXCEPT ![k] = "closed"]
    /\ b_open' = [b_open EXCEPT ![k] = {}]
    /\ b_ready' = [b_ready EXCEPT ![k] = << >>]
    /\ UNCHANGED <<b_peer, b_cands, b_tried, b_via, b_rd, b_eof, b_wr, b_arrived,
                   b_clients, b_bytes, lvars, dvars>>

BrokerNext ==
    \/ \E k \in BConns, addr \in PeerAddrs : BrokerAccept(k, addr)
    \/ \E k \in BConns, listed \in DevicectlOutputs : CoredeviceCandidates(k, listed)
    \/ \E k \in BConns, connected \in BOOLEAN : TryConnect(k, connected)
    \/ \E k \in BConns, outcome \in UsbmuxOutcomes : TryUsbmux(k, outcome)
    \/ \E k \in BConns, s \in Sides : ByteArrives(k, s)
    \/ \E k \in BConns, s \in Sides : PeerCloses(k, s)
    \/ \E k \in BConns : PumpSelect(k)
    \/ \E k \in BConns : \E sent \in 0..MaxBytes : PumpForward(k, sent)
    \/ \E k \in BConns : PumpRecvError(k)

\* The steps of the clients and of the listener's threads, but for the
\* return of a bridge.handle that waited.
ListenerSteps ==
    \/ \E c \in Conns, addr \in PeerAddrs : ClientConnect(c, addr)
    \/ \E c \in Conns : \E seg \in vocab : ClientSend(c, seg)
    \/ \E c \in Conns : ClientClose(c)
    \/ AcceptLoopCheck
    \/ \E c \in Conns : Accept(c)
    \/ AcceptTimeout
    \/ AcceptError
    \/ ProcessExit
    \/ \E c \in Conns : OriginCheck(c)
    \/ \E c \in Conns : WhileCheck(c)
    \/ \E c \in Conns : Recv(c)
    \/ \E c \in Conns : RecvEof(c)
    \/ \E c \in Conns : RecvError(c)
    \/ \E c \in Conns : Extract(c)
    \/ \E c \in Conns, dev \in DevOutcomes : HandleLine(c, dev)
    \/ \E c \in Conns, ok \in BOOLEAN : SendResult(c, ok)
    \/ \E c \in Conns : StopSet(c)
    \/ \E c \in Conns : StopClose(c)
    \/ \E c \in Conns, ok \in BOOLEAN : SendError(c, ok)

ListenerNext ==
    \/ ListenerSteps
    \/ \E c \in Conns, dev \in DevOutcomes : HandleReturn(c, dev)

(***************************************************************************)
(* The requests and devices of the dispatcher specification.               *)
(***************************************************************************)
\* A parameter the request does not carry.
Absent == [t |-> "absent", v |-> ""]

\* The params object with the fields of r that are present.
Present(r) == [k \in {f \in DOMAIN r : r[f].t # "absent"} |-> r[k]]

\* The largest count of a tap_element request.
MaxCount == 3

\* The adb invocations of a request up to this one may go wrong.
MaxFail == 3

\* The longest identifier of an open_app request, in characters.
MaxIdLen == 3

NumberArgs ==
    {Integer(3), Integer(-2), Float(5), Str("12"), Str("nan"), Str("abc"), Null, Absent}

CoordinateArgs ==
    {Str("{{10, 20}, {5, 7}}"), Str(" {{0, 0}, {1, 3}} "), Str("{{-4,2},{3,0}}"),
     Str("10,20,5,7"), Integer(3), Absent}

CountArgs ==
    {Integer(n) : n \in -1..MaxCount} \cup {Float(1), Str(" 7 "), Str("abc"), Null, Absent}

LongPressArgs == {Bool(TRUE), Bool(FALSE), Str("false"), Integer(0), Absent}

TextArgs ==
    {TextOfLines(ls) : ls \in {<<0>>, <<5>>, <<5, 0>>, <<3, 0, 4>>, <<0, 0>>, <<85>>,
                               <<160, 1>>}}
    \cup {Integer(3), Absent}

StartArgs == {Integer(0), Integer(200), Integer(-5), Integer(1500), Str("abc"), Absent}
DistanceArgs == {Integer(0), Integer(-300), Integer(90), Integer(2500), Float(1), Absent}
DirectionArgs ==
    {Str("up"), Str("down"), Str("left"), Str("right"), Str(" UP "), Str("Left"),
     Str("diagonal"), Str(""), Integer(1), Absent}

\* The sizes "wm size" reports; << >> when its output has no size.
Screens == {<<1, 1>>, <<300, 500>>, <<401, 803>>, <<1080, 1920>>, <<1920, 1080>>}

IdChars == {"a", "1", "_", ".", " ", "!"}
Identifiers == UNION {[1..n -> IdChars] : n \in 0..MaxIdLen}
IdentifierArgs == {Text(cs) : cs \in Identifiers} \cup {Integer(0), Integer(1), Null, Absent}
PackageNameArgs == {Text(<<"a", ".", "a">>), Text(<<"a">>), Absent}

ApiKeyArgs == {Str("k1"), Str(" "), Str(""), Integer(1), Null, Absent}

\* The ways an invocation goes wrong, <<0, "fail">> for none.
Failures == {<<0, "fail">>} \cup ((1..MaxFail) \X {"fail", "timeout"})

\* A device, and the device with a dump that does not parse.
WithMalformed(devs) == devs \cup {Malformed(dev) : dev \in devs}

\* Devices that differ in what goes wrong and in the dump.
PlainDevs ==
    WithMalformed(
        {Env(f[1], f[2], <<1080, 1920>>, x, TRUE, "component", "ok", "ok", "same") :
            f \in Failures, x \in BOOLEAN})

\* Devices that differ in the screen size as well.
SizedDevs ==
    WithMalformed(
        {Env(f[1], f[2], scr, TRUE, TRUE, "component", "ok", "ok", "same") :
            f \in Failures, scr \in Screens \cup {<< >>}})

\* Devices that differ in what the launch of an app meets.
LaunchDevs ==
    WithMalformed(
        {Env(f[1], f[2], <<1080, 1920>>, TRUE, TRUE, rs, st, mk, fg) :
            f \in Failures,
            rs \in {"component", "none", "nonzero"},
            st \in {"ok", "error_text", "nonzero"},
            mk \in {"ok", "none_found", "nonzero"},
            fg \in {"same", "other", "unknown"}})

\* Devices that differ in the screenshot.
ShotDevs ==
    WithMalformed(
        {Env(f[1], f[2], <<1080, 1920>>, x, png, "component", "ok", "ok", "same") :
            f \in Failures, x \in BOOLEAN, png \in BOOLEAN})

Run(method, params, dev) == [method |-> method, params |-> Present(params), dev |-> dev]

\* The methods of the requests the dispatcher specification hands to handle.
Methods ==
    {"get_tree", "get_screen_image", "get_context", "tap", "tap_element", "enter_text",
     "scroll", "swipe", "open_app", "set_api_key", "submit_prompt", "stop", "bogus"}

\* The requests for a method the dispatcher specification hands to handle,
\* each with a device it runs against.
Runs(method) ==
    CASE method = "tap" ->
            {Run("tap", [x |-> x, y |-> y], dev) :
                x \in NumberArgs, y \in NumberArgs, dev \in PlainDevs}
      [] method = "tap_element" ->
            {Run("tap_element", [coordinate |-> c, count |-> n, longPress |-> lp], dev) :
                c \in CoordinateArgs, n \in CountArgs, lp \in LongPressArgs,
                dev \in PlainDevs}
      [] method = "enter_text" ->
            {Run("enter_text", [coordinate |-> c, text |-> t], dev) :
                c \in CoordinateArgs, t \in TextArgs, dev \in PlainDevs}
      [] method = "scroll" ->
            {Run("scroll", [x |-> x, y |-> Integer(40), distanceX |-> dx,
                            distanceY |-> dy], dev) :
                x \in StartArgs, dx \in DistanceArgs, dy \in DistanceArgs,
                dev \in SizedDevs}
            \cup {Run("scroll", [x |-> Integer(7), y |-> y, distanceX |-> Integer(0),
                                 distanceY |-> dy], dev) :
                y \in StartArgs, dy \in DistanceArgs, dev \in SizedDevs}
      [] method = "swipe" ->
            {Run("swipe", [x |-> x, y |-> y, direction |-> d], dev) :
                x \in StartArgs, y \in StartArgs, d \in DirectionArgs, dev \in SizedDevs}
      [] method = "open_app" ->
            {Run("open_app", [bundle_identifier |-> b, package_name |-> p],
                 EnvFailing(0, "fail")) :
                b \in IdentifierArgs, p \in PackageNameArgs}
            \cup {Run("open_app", [bundle_identifier |-> Text(<<"a", ".", "a">>)], dev) :
                dev \in LaunchDevs}
      [] method = "set_api_key" ->
            {Run("set_api_key", [api_key |-> k], EnvFailing(0, "fail")) : k \in ApiKeyArgs}
      [] method \in {"get_tree", "get_screen_image", "get_context"} ->
            {Run(method, EmptyDict, dev) : dev \in ShotDevs}
      [] OTHER -> {Run(method, EmptyDict, EnvFailing(0, "fail"))}

\* No request yet.
NoRun == Run("", EmptyDict, EnvFailing(0, "fail"))

\* No rect yet.
NoRect == [rect |-> << >>, text |-> << >>, parsed |-> ArgOk(<< >>), again |-> << >>]

InitDispatcher(pc0) ==
    /\ d_pc = pc0
    /\ d_key \in (IF pc0 = "off" THEN {Null} ELSE {Null, Str("k0")})
    /\ d_method = ""
    /\ d_params = EmptyDict
    /\ d_dev = NoRun.dev
    /\ d_res = Returned("", FALSE, Null)
    /\ d_rt = NoRect

\* The key another thread's set_api_key stores on the bridge.
OtherKey == Str("k9")

\* self.bridge.handle(method, params) is called.  A request that makes no adb
\* invocation returns or raises at once; otherwise the thread waits in
\* subprocess.run while other threads call the same bridge.
Dispatch ==
    /\ d_pc = "idle"
    /\ \E m \in Methods : \E r \in Runs(m) :
          /\ d_method' = r.method
          /\ d_params' = r.params
          /\ d_dev' = r.dev
          /\ LET o == handle(r.method, r.params, d_key, r.dev)
             IN  IF o.log = << >>
                 THEN d_res' = o /\ d_pc' = "done"
                 ELSE d_pc' = "running" /\ UNCHANGED d_res
    /\ UNCHANGED <<d_key, d_rt, lvars, bvars>>

\* While the request waits, the thread of another connection handles
\* set_api_key: self.api_key = key on the one bridge.
OtherSetsKey ==
    /\ d_pc = "running"
    /\ d_key # OtherKey
    /\ d_key' = OtherKey
    /\ UNCHANGED <<d_pc, d_method, d_params, d_dev, d_res, d_rt, lvars, bvars>>

\* While the request waits between its dump and its read, the thread of
\* another connection makes the dump of its own request.
OtherDumps ==
    /\ d_pc = "running"
    /\ ~d_dev.redumped
    /\ d_dev' = Redumped(d_dev)
    /\ UNCHANGED <<d_pc, d_key, d_method, d_params, d_res, d_rt, lvars, bvars>>

\* result, should_stop = self.bridge.handle(method, params): the call
\* returns or raises after its adb invocations.
DispatchReturn ==
    /\ d_pc = "running"
    /\ d_res' = handle(d_method, d_params, d_key, d_dev)
    /\ d_pc' = "done"
    /\ UNCHANGED <<d_key, d_method, d_params, d_dev, d_rt, lvars, bvars>>

DispatcherNext == Dispatch \/ OtherSetsKey \/ OtherDumps \/ DispatchReturn

\* The coordinates of the rects, in 32nds: both signs, the ties of the
\* rounding to a tenth (8/32, 24/32, 40/32), values that round to zero and
\* to the next unit, and sizes of a screen.
RectOrigins == {-34560, -325, -40, -24, -9, -8, -1, 0, 1, 2, 8, 24, 31, 40, 319, 34577}
RectSizes == {0, 1, 8, 24, 63, 3200, 61440}

\* text = _format_rect(x, y, w, h)
FormatRect ==
    /\ d_pc = "rect"
    /\ d_rt' = [d_rt EXCEPT !.text = format_rect(d_rt.rect[1], d_rt.rect[2], d_rt.rect[3],
                                                 d_rt.rect[4])]
    /\ d_pc' = "formatted"
    /\ UNCHANGED <<d_key, d_method, d_params, d_dev, d_res, lvars, bvars>>

\* _parse_coordinate_rect(text)
ParseRect ==
    /\ d_pc = "formatted"
    /\ d_rt' = [d_rt EXCEPT !.parsed = parse_coordinate_rect_text(d_rt.text)]
    /\ d_pc' = "parsed"
    /\ UNCHANGED <<d_key, d_method, d_params, d_dev, d_res, lvars, bvars>>

\* _format_rect(*parsed)
FormatAgain ==
    /\ d_pc = "parsed"
    /\ d_rt.parsed.err = "none"
    /\ d_rt' = [d_rt EXCEPT !.again = format_rect(d_rt.parsed.v[1], d_rt.parsed.v[2],
                                                  d_rt.parsed.v[3], d_rt.parsed.v[4])]
    /\ d_pc' = "again"
    /\ UNCHANGED <<d_key, d_method, d_params, d_dev, d_res, lvars, bvars>>

RectNext == FormatRect \/ ParseRect \/ FormatAgain

(***************************************************************************)
(* The inputs of _bounds_to_rect and _format_tree.                         *)
(***************************************************************************)
\* The decimal text of an integer.
int_text(n) == IF n < 0 THEN <<"-">> \o decimal(-n) ELSE decimal(n)

\* The two-corner text [x1,y1][x2,y2] of four integers.
bounds_text(q) ==
    <<"[">> \o int_text(q[1]) \o <<",">> \o int_text(q[2]) \o <<"]", "[">>
    \o int_text(q[3]) \o <<",">> \o int_text(q[4]) \o <<"]">>

\* Corners: both signs, the second corner left of and above the first one,
\* equal corners, the sizes of a screen.
CornerXs == {-12, 0, 10, 110, 1080}
CornerYs == {-3, 0, 20, 220, 2400}

\* Texts that are not of the two-corner form: no text, one corner, a bracket
\* missing, a blank inside, a fraction, a plus sign, a lone minus sign, two
\* minus signs, a blank or a comma between the corners, text after the form,
\* the braces of a coordinate.
MalformedBounds ==
    {<< >>,
     <<"[", "1", "0", ",", "2", "0", "]">>,
     <<"[", "1", "0", ",", "2", "0", "]", "[", "1", "1", "0", ",", "2", "2", "0">>,
     <<"[", "1", "0", ",", " ", "2", "0", "]", "[", "1", "1", "0", ",", "2", "2", "0", "]">>,
     <<"[", "1", "0", ".", "0", ",", "2", "0", "]", "[", "1", "1", "0", ",", "2", "2", "0", "]">>,
     <<"[", "+", "1", "0", ",", "2", "0", "]", "[", "1", "1", "0", ",", "2", "2", "0", "]">>,
     <<"[", "-", ",", "2", "0", "]", "[", "1", "1", "0", ",", "2", "2", "0", "]">>,
     <<"[", "-", "-", "1", ",", "2", "0", "]", "[", "1", "1", "0", ",", "2", "2", "0", "]">>,
     <<"[", "1", "0", ",", "2", "0", "]", " ", "[", "1", "1", "0", ",", "2", "2", "0", "]">>,
     <<"[", "1", "0", ",", "2", "0", "]", ",", "[", "1", "1", "0", ",", "2", "2", "0", "]">>,
     <<"[", "1", "0", ",", "2", "0", "]", "[", "1", "1", "0", ",", "2", "2", "0", "]", "x">>,
     <<"{", "{", "1", ".", "0", ",", " ", "2", ".", "0", "}", ",", " ", "{", "3", ".", "0",
       ",", " ", "4", ".", "0", "}", "}">>}

\* What _bounds_to_rect is given: the integers of the corners (none for a
\* text that is not of the form) and the text.
BoundsInputs ==
    {[ints |-> <<x1, y1, x2, y2>>, text |-> bounds_text(<<x1, y1, x2, y2>>)] :
        x1 \in CornerXs, y1 \in CornerYs, x2 \in CornerXs, y2 \in CornerYs}
    \cup {[ints |-> << >>, text |-> t] : t \in MalformedBounds}

\* Elements of a document, at most.
MaxElements == 4

\* The attributes of the i-th element of a document: a class that tells the
\* elements apart, and by turns bounds, bounds that are not of the form and
\* no bounds, with a text, a description or neither.
AttrsOf(i) ==
    LET class == <<"a", ".", "V", DigitChars[i + 1]>>
    IN  CASE i % 3 = 1 ->
               [class |-> class,
                bounds |-> <<"[", "1", "0", ",", "2", "0", "]", "[", "1", "1", "0", ",",
                             "2", "2", "0", "]">>,
                text |-> <<" ", "o", "k">>, clickable |-> <<"t", "r", "u", "e">>]
          [] i % 3 = 2 ->
               [class |-> class,
                bounds |-> <<"[", "1", "0", ",", "2", "0", "]">>,
                text |-> << >>]
          [] OTHER -> [class |-> class]

\* The document of elements with the given depths and tags, in document
\* order: its start and end tags.
RECURSIVE document_tags(_, _, _, _)
document_tags(depths, tags, i, open) ==
    IF i > Len(depths)
    THEN [k \in 1..Len(open) |-> EndTag(tags[open[Len(open) + 1 - k]])]
    ELSE IF Len(open) > depths[i]
         THEN <<EndTag(tags[open[Len(open)]])>>
              \o document_tags(depths, tags, i, SubSeq(open, 1, Len(open) - 1))
         ELSE <<StartTag(tags[i], AttrsOf(i))>>
              \o document_tags(depths, tags, i + 1, Append(open, i))

\* The documents of n elements: every shape of the tree, every element a
\* node or another element.
Documents(n) ==
    {document_tags(depths, tags, 1, << >>) :
        depths \in {d \in [1..n -> 0..(n - 1)] :
                      /\ d[1] = 0
                      /\ \A i \in 2..n : d[i] >= 1 /\ d[i] <= d[i - 1] + 1},
        tags \in [1..n -> {"hierarchy", "node"}]}

\* Texts that are no document: nothing, an element left open, an end tag of
\* another element, a second root.
BrokenDocuments ==
    {<< >>,
     <<StartTag("hierarchy", AttrsOf(1)), StartTag("node", AttrsOf(2)), EndTag("node")>>,
     <<StartTag("hierarchy", AttrsOf(1)), StartTag("node", AttrsOf(2)), EndTag("hierarchy"),
       EndTag("node")>>,
     <<StartTag("hierarchy", AttrsOf(1)), EndTag("hierarchy"), StartTag("node", AttrsOf(2)),
       EndTag("node")>>}

\* No bounds and no document yet.
NoTree == [ints |-> << >>, bounds |-> << >>, rect |-> << >>, xml |-> << >>,
           lines |-> ArgOk(<< >>)]

\* rect = _bounds_to_rect(bounds)
BoundsToRect ==
    /\ d_pc = "bounds"
    /\ d_rt' = [d_rt EXCEPT !.rect = bounds_to_rect(d_rt.bounds)]
    /\ d_pc' = "rect_of"
    /\ UNCHANGED <<d_key, d_method, d_params, d_dev, d_res, lvars, bvars>>

\* self._format_tree(xml)
FormatTree ==
    /\ d_pc = "xml"
    /\ d_rt' = [d_rt EXCEPT !.lines = format_tree(d_rt.xml)]
    /\ d_pc' = "tree"
    /\ UNCHANGED <<d_key, d_method, d_params, d_dev, d_res, lvars, bvars>>

TreeNext == BoundsToRect \/ FormatTree

vars == <<lvars, bvars, dvars>>

\* Two connections, the session requests.  None of them makes an adb
\* invocation, so no thread waits inside bridge.handle.
Init ==
    InitListener(SessionSegments, Conns, MaxSends) /\ InitBroker({}, 0)
    /\ InitDispatcher("off")

Next == ListenerSteps

Spec == Init /\ [][Next]_vars

\* One connection, every request text.
InitLine ==
    InitListener(AllSegments, {1}, MaxLineSends) /\ InitBroker({}, 0)
    /\ InitDispatcher("off")

SpecLine == InitLine /\ [][ListenerNext]_vars

\* The broker alone, with one local connection.
InitForward ==
    InitListener({}, {}, 0) /\ InitBroker({1}, MaxBytes) /\ InitDispatcher("off")

NextForward == BrokerNext

SpecBroker == InitForward /\ [][NextForward]_vars

\* Bytes that arrive at the sockets of the two pairings, in total.
MaxPairBytes == 1

\* The broker with two local connections at a time.
InitPairs ==
    InitListener({}, {}, 0) /\ InitBroker(BConns, MaxPairBytes) /\ InitDispatcher("off")

SpecPairs == InitPairs /\ [][NextForward]_vars

\* The steps of the thread of pump.
PumpThread ==
    \E k \in BConns :
        \/ PumpSelect(k)
        \/ \E sent \in 0..MaxBytes : PumpForward(k, sent)
        \/ PumpRecvError(k)

\* The broker with one local connection, the thread of pump scheduled fairly.
SpecRelay == InitForward /\ [][NextForward]_vars /\ WF_vars(PumpThread)

\* Rects formatted, parsed and formatted again.
InitRect ==
    /\ InitListener({}, {}, 0) /\ InitBroker({}, 0)
    /\ d_pc = "rect"
    /\ d_key = Null
    /\ d_method = ""
    /\ d_params = EmptyDict
    /\ d_dev = NoRun.dev
    /\ d_res = Returned("", FALSE, Null)
    /\ d_rt \in {[NoRect EXCEPT !.rect = <<Of32nds(x), Of32nds(y), Of32nds(w), Of32nds(h)>>] :
                     x \in RectOrigins, y \in {-8, 0, 650}, w \in RectSizes,
                     h \in {0, 24, 3207}}

SpecRect == InitRect /\ [][RectNext]_vars

\* Bounds turned into rects and documents turned into hierarchy texts.
InitTree ==
    /\ InitListener({}, {}, 0) /\ InitBroker({}, 0)
    /\ d_key = Null
    /\ d_method = ""
    /\ d_params = EmptyDict
    /\ d_dev = NoRun.dev
    /\ d_res = Returned("", FALSE, Null)
    /\ \/ /\ d_pc = "bounds"
          /\ d_rt \in {[NoTree EXCEPT !.ints = b.ints, !.bounds = pad \o b.text \o pad] :
                          b \in BoundsInputs, pad \in {<< >>, <<" ">>}}
       \/ /\ d_pc = "xml"
          /\ d_rt \in {[NoTree EXCEPT !.xml = doc] :
                          doc \in BrokenDocuments
                                  \cup UNION {Documents(n) : n \in 1..MaxElements}}

SpecTree == InitTree /\ [][TreeNext]_vars

\* Bytes of the stream the client of the framing specification sends.
MaxStreamLen == 4

\* The bytes of a stream: two request texts, the newline, a blank.
StreamBytes == {"tree", "stop", LF, SP}

\* The streams of n bytes.
Streams(n) == [1..n -> StreamBytes]

\* The stream a client sends in pieces, and how much of it is sent.
TheStream == CHOOSE s \in vocab : TRUE
StreamSent == Len(TheStream) - sends

\* The client writes the next k bytes of its stream: sock.sendall of a part
\* of the request text, or the network delivering it in pieces.  As for
\* ClientSend, the first sendall on a connection the server has closed
\* returns.
ClientSendPart(c, k) ==
    /\ CanSend(c)
    /\ k \in 1..sends
    /\ net' = [net EXCEPT ![c] = @ \o SubSeq(TheStream, StreamSent + 1, StreamSent + k)]
    /\ sends' = sends - k
    /\ UNCHANGED <<stop_event, server_sock, accept_pc, backlog, api_key, cl, peer, pc,
                   buffer, line, pending, out, handled, lastSet, vocab, clients,
                   bvars, dvars>>

\* One connection whose client sends one stream of bytes, split anywhere.
InitFrame ==
    /\ \E s \in Streams(MaxStreamLen) : InitListener({s}, {1}, MaxStreamLen)
    /\ InitBroker({}, 0)
    /\ InitDispatcher("off")

NextFrame ==
    \/ \E c \in Conns, addr \in PeerAddrs : ClientConnect(c, addr)
    \/ \E c \in Conns : \E k \in 1..MaxStreamLen : ClientSendPart(c, k)
    \/ \E c \in Conns : ClientClose(c)
    \/ AcceptLoopCheck
    \/ \E c \in Conns : Accept(c)
    \/ AcceptTimeout
    \/ AcceptError
    \/ ProcessExit
    \/ \E c \in Conns : OriginCheck(c)
    \/ \E c \in Conns : WhileCheck(c)
    \/ \E c \in Conns : Recv(c)
    \/ \E c \in Conns : RecvEof(c)
    \/ \E c \in Conns : RecvError(c)
    \/ \E c \in Conns : Extract(c)
    \/ \E c \in Conns, dev \in DevOutcomes : HandleLine(c, dev)
    \/ \E c \in Conns, dev \in DevOutcomes : HandleReturn(c, dev)
    \/ \E c \in Conns, ok \in BOOLEAN : SendResult(c, ok)
    \/ \E c \in Conns : StopSet(c)
    \/ \E c \in Conns : StopClose(c)
    \/ \E c \in Conns, ok \in BOOLEAN : SendError(c, ok)

SpecFrame == InitFrame /\ [][NextFrame]_vars

\* The steps of the accept loop of start().
MainThread ==
    AcceptLoopCheck \/ (\E c \in Conns : Accept(c)) \/ AcceptTimeout \/ AcceptError

\* Segments the clients send in the specification with fairness.
MaxLiveSends == 1

InitLive ==
    InitListener(SessionSegments, Conns, MaxLiveSends) /\ InitBroker({}, 0)
    /\ InitDispatcher("off")

\* The two connections with an accept loop that is scheduled fairly.
SpecLive == InitLive /\ [][Next]_vars /\ WF_vars(MainThread)

\* Two connections, one of which may send a line without its newline.
StallSegments == {<<"tree", LF>>, <<"tree">>, <<"stop", LF>>}

InitStall ==
    InitListener(StallSegments, Conns, MaxSends) /\ InitBroker({}, 0)
    /\ InitDispatcher("off")

SpecStall == InitStall /\ [][ListenerNext]_vars

\* One request handed to the dispatcher.
InitDispatch ==
    InitListener({}, {}, 0) /\ InitBroker({}, 0) /\ InitDispatcher("idle")

NextDispatch == DispatcherNext

SpecDispatch == InitDispatch /\ [][NextDispatch]_vars

(***************************************************************************)
(* Properties of the Bridge Listener.                                      *)
(***************************************************************************)
Last(s) == s[Len(s)]

\* The id a Response to the line has to carry: the id of the JSON object,
\* null when the line is no JSON object or the object has no id.
IdOfLine(l) ==
    IF Len(l) = 1 /\ JsonText(l[1]).valid /\ JsonText(l[1]).val.t = "dict"
          /\ "id" \in DOMAIN JsonText(l[1]).val.v
    THEN JsonText(l[1]).val.v["id"]
    ELSE Null

\* The line is a framing error: not JSON, not an object, method missing or
\* not a string, params present and not an object.
IsFramingError(l) ==
    \/ Len(l) # 1
    \/ ~JsonText(l[1]).valid
    \/ JsonText(l[1]).val.t # "dict"
    \/ LET obj == JsonText(l[1]).val.v
       IN  \/ "method" \notin DOMAIN obj
           \/ obj["method"].t # "str"
           \/ ("params" \in DOMAIN obj /\ obj["params"].t # "dict")

\* The bytes hold a complete, non-blank line.
HasRequestLine(bytes) ==
    \E i \in 1..Len(bytes) :
        /\ bytes[i] = LF
        /\ \E j \in 1..(i - 1) :
              /\ bytes[j] \notin {LF, SP}
              /\ \A k \in j..(i - 1) : bytes[k] # LF

\* The thread of the connection is inside _handle_line, before its Response.
InHandleLine(c) == pc[c] \in {"handle", "in_handle", "send_result", "send_error"}

\* The thread of the connection has ended by an exception that left
\* _handle_line: its last line has no Response.  (A thread that ended by the
\* exception of conn.recv has answered every line.)
EndedInHandleLine(c) == pc[c] = "crashed" /\ Len(out[c]) < Len(handled[c])

\* C1: every Response line written carries an id and exactly one of the
\* fields result and error, whatever the request line and the outcome of
\* its dispatch were.
C1_ExactlyOneOfResultError ==
    \A c \in Conns : \A i \in 1..Len(out[c]) :
        LET p == out[c][i].payload
        IN  /\ "id" \in DOMAIN p
            /\ ("result" \in DOMAIN p) # ("error" \in DOMAIN p)

\* A result Response and the error Response of an unexpected exception were
\* written on one connection.
C1_Witness ==
    \E c \in Conns :
        /\ Len(out[c]) = 2
        /\ "result" \in DOMAIN out[c][1].payload
        /\ "error" \in DOMAIN out[c][2].payload
        /\ out[c][2].payload.error.message[1] = "Internal error: "

\* C2: within a connection the lines are handled one at a time and answered
\* in the order received: the Responses written answer the first lines
\* handed to _handle_line, in that order, and when the next line is being
\* handled every earlier line has its Response (or the thread has ended).
C2_SerialInOrder ==
    \A c \in Conns :
        LET n == Len(handled[c])
            m == Len(out[c])
        IN  /\ m = IF InHandleLine(c) \/ EndedInHandleLine(c) THEN n - 1 ELSE n
            /\ \A i \in 1..m : i <= n /\ out[c][i].line = handled[c][i]

\* The first line is answered while the second, received with it, waits
\* in the buffer.
C2_Witness ==
    \E c \in Conns :
        /\ pc[c] = "extract"
        /\ Len(out[c]) = 1
        /\ HasRequestLine(buffer[c])

\* C3 (as claimed): no request is dropped, also not by a stop issued on
\* another connection: when the server has closed an accepted loopback
\* connection that asked for no stop itself and whose client is still
\* there, every complete request line sent on it has its Response.
C3_NoRequestDropped ==
    \A c \in Conns :
        (/\ ServerClosed(c) /\ IsLoopback(peer[c]) /\ cl[c] = "open"
         /\ \A i \in 1..Len(handled[c]) : handled[c][i] # <<"stop">>)
            => /\ ~HasRequestLine(buffer[c] \o net[c])
               /\ Len(out[c]) = Len(handled[c])

\* C4 (as claimed): the key submit_prompt consults on a connection is the
\* one the last set_api_key of that connection stored, or none.
C4_SessionIsolation ==
    \A c \in Conns :
        (pc[c] = "handle" /\ line[c] = <<"submit">>) => api_key = lastSet[c]

\* C5: a connection whose peer is not a loopback address is closed by its
\* thread's first step: nothing is read from it, no line of it is handled
\* and nothing is written to it.
C5_ForeignPeerClosedUnread ==
    \A c \in Conns :
        (pc[c] # "none" /\ ~(peer[c] \in {"127.0.0.1", "::1"}))
            => /\ pc[c] \in {"start", "closed"}
               /\ buffer[c] = << >>
               /\ handled[c] = << >>
               /\ out[c] = << >>

\* A foreign peer's connection is closed with the request it sent unread.
C5_Witness ==
    \E c \in Conns :
        /\ peer[c] = "10.0.0.5"
        /\ pc[c] = "closed"
        /\ HasRequestLine(net[c])

\* C6 (as claimed): a local connection of the broker whose source address
\* is not a loopback address is closed with nothing written to it, and no
\* remote address is tried and no relay started for it.
C6_BrokerForeignPeerClosed ==
    \A k \in BConns :
        (b_pc[k] # "none" /\ b_peer[k] \notin {"127.0.0.1", "::1"})
            => /\ b_pc[k] \in {"candidates", "connect", "closed"}
               /\ b_tried[k] = << >>
               /\ b_via[k] = ""
               /\ b_wr[k]["a"] = << >>

\* C7 (as claimed): a framing error is answered with one error Response
\* that echoes the parsable id, is not dispatched, and leaves the connection
\* to handle the lines after it.
C7_FramingErrorNonFatal ==
    \A c \in Conns :
        (handled[c] # << >> /\ IsFramingError(Last(handled[c])))
            => /\ pending[c].dispatched = FALSE
               /\ ~EndedInHandleLine(c)
               /\ ~InHandleLine(c) =>
                     /\ Len(out[c]) = Len(handled[c])
                     /\ "error" \in DOMAIN Last(out[c]).payload
                     /\ Last(out[c]).payload.id = IdOfLine(Last(handled[c]))

\* C8 (as claimed): no failure while a line is handled ends the thread of
\* the connection: every exception becomes an error Response.
C8_FailureNeverEndsThread ==
    \A c \in Conns : ~EndedInHandleLine(c)

\* C9: every Response carries the id of the line it answers: the id of the
\* JSON object, null for an object without id and for a line that is no
\* JSON object.
C9_ResponseEchoesId ==
    \A c \in Conns : \A i \in 1..Len(out[c]) :
        out[c][i].payload.id = IdOfLine(out[c][i].line)

\* A Response with the id of its request, then a Response with id null to
\* an object that has no id.
C9_Witness ==
    \E c \in Conns :
        /\ Len(out[c]) = 2
        /\ out[c][1].payload.id \notin {Null}
        /\ out[c][2].line = <<"submit">>
        /\ out[c][2].payload.id = Null

\* The Response to a stop request: the empty result.
IsStopResponse(e) ==
    /\ e.line = <<"stop">>
    /\ "result" \in DOMAIN e.payload
    /\ e.payload.result = "empty"

\* C10: stop returns the empty result, and the shutdown (the stop flag, the
\* closing of the listening socket) is begun only by a thread that has
\* written the Response to its stop request: a stop whose Response could
\* not be written starts no shutdown.
C10_StopAfterResponse ==
    /\ \A c \in Conns :
          pc[c] \in {"stop_set", "stop_close"}
              => out[c] # << >> /\ IsStopResponse(Last(out[c]))
    /\ (stop_event \/ server_sock = "closed")
          => \E c \in Conns : \E i \in 1..Len(out[c]) : IsStopResponse(out[c][i])
    /\ \A c \in Conns : \A i \in 1..Len(out[c]) :
          (out[c][i].line = <<"stop">> /\ "result" \in DOMAIN out[c][i].payload)
              => out[c][i].payload.result = "empty"

\* A stop whose Response could not be written has ended its thread, and the
\* listener goes on.
C10_Witness ==
    \E c \in Conns :
        /\ EndedInHandleLine(c)
        /\ Last(handled[c]) = <<"stop">>
        /\ ~stop_event /\ server_sock = "open"

\* C11 (as claimed): once the stop flag is set no further request line is
\* dispatched: neither on a connection accepted afterwards nor, on a
\* connection that is open, any line other than the one that was being
\* handled when the flag was set.  No step hands a request to _handle_line
\* while the flag is set.
C11_NoDispatchAfterStop ==
    [][\A c \in Conns :
          (stop_event /\ pc[c] = "extract" /\ pc'[c] = "handle")
              => ~handle_line(line'[c], api_key, EnvFailing(0, "fail")).dispatched]_vars

\* The state of the listener: 1 Accepting, 2 Draining (the stop flag is
\* set), 3 Stopped (the accept loop has ended).
Phase == IF accept_pc \in {"stopped", "exited"} THEN 3 ELSE IF stop_event THEN 2 ELSE 1

\* C12: the listener never goes back to an earlier state, the stop flag is
\* never cleared once set, and once it is set the accept loop ends and the
\* listening socket is closed, whether or not a connection still arrives,
\* when the accept loop is scheduled fairly.
C12_StopIsFinal ==
    /\ [][Phase' >= Phase /\ (stop_event => stop_event')]_vars
    /\ (stop_event ~> (accept_pc \in {"stopped", "exited"} /\ server_sock = "closed"))

\* C12 witness: the flag is set, the accept loop has ended with the socket
\* closed, and one of the clients never connected.
C12_Witness ==
    /\ stop_event /\ accept_pc = "stopped" /\ server_sock = "closed"
    /\ \E c \in Conns : cl[c] = "idle"

\* C13 (as claimed): a request whose dispatch had begun before the stop flag
\* was set runs to completion and has its Response written: while such a
\* request waits inside the dispatcher, or for its Response to be written,
\* with its client there, the thread of its connection has not been ended
\* from outside.
C13_InFlightCompletes ==
    \A c \in Conns :
        (/\ pc[c] \in {"in_handle", "send_result", "send_error"}
         /\ pending[c].dispatched /\ ~pending[c].stopping
         /\ cl[c] = "open")
            => Alive

\* The connection has sent no complete line and its thread waits in recv.
Stalled(d) == pc[d] = "recv" /\ ~HasRequestLine(buffer[d] \o net[d])

\* C14: a connection that has sent nothing, or a line without its newline,
\* holds up nothing: each step of another connection's thread (receiving
\* what arrived, extracting, dispatching, writing the Response) and the
\* accept of a waiting connection can be taken whatever the stalled
\* connection does.
C14_StalledBlocksNothing ==
    \A c \in Conns : \A d \in Conns \ {c} :
        (Alive /\ Stalled(d)) =>
            /\ (pc[c] = "recv" /\ net[c] # << >>) => ENABLED Recv(c)
            /\ pc[c] = "extract" => ENABLED Extract(c)
            /\ pc[c] = "handle" => ENABLED HandleLine(c, EnvFailing(0, "fail"))
            /\ pc[c] = "in_handle" => ENABLED HandleReturn(c, EnvFailing(0, "fail"))
            /\ pc[c] = "send_result" => ENABLED SendResult(c, TRUE)
            /\ pc[c] = "send_error" => ENABLED SendError(c, TRUE)
            /\ (accept_pc = "accept" /\ server_sock = "open" /\ c \in backlog)
                   => ENABLED Accept(c)

\* C14 witness: a connection has sent a line without its newline and got
\* nothing, another connection has its request answered.
C14_Witness ==
    \E c \in Conns : \E d \in Conns \ {c} :
        /\ Stalled(d) /\ buffer[d] = <<"tree">> /\ out[d] = << >>
        /\ Len(out[c]) = 1 /\ "result" \in DOMAIN out[c][1].payload
        /\ out[c][1].line = <<"tree">>

\* The adb invocations of the log with the given operations.
OpsOf(log, ops) == {i \in 1..Len(log) : log[i].op \in ops}

\* The invocations that act on the device: gestures, text, key events and
\* the launch of an app.
InputOps == {"tap", "swipe", "text", "keyevent", "am_start", "monkey"}

\* The messages of failures of the automation tool, as opposed to the
\* rejection of a request for its parameters.
ToolErrors ==
    {"adb command failed", "TimeoutExpired", "failed to read screen size",
     "uiautomator dump did not return XML hierarchy", "failed to parse UI hierarchy XML",
     "device screencap did not return PNG bytes", "failed to open app",
     "failed to foreground app"}

\* C15: a request of tap, tap_element, enter_text, scroll, swipe, open_app
\* or set_api_key that is rejected for its parameters has issued no input
\* or launch command to the device and has left the stored API key as it
\* was.
C15_RejectedIsNoOp ==
    (/\ d_pc = "done"
     /\ d_method \in {"tap", "tap_element", "enter_text", "scroll", "swipe", "open_app",
                      "set_api_key"}
     /\ d_res.kind # "result"
     /\ d_res.value \notin ToolErrors)
        => /\ OpsOf(d_res.log, InputOps) = {}
           /\ d_res.api_key = d_key

\* C15 witness: a long press with count 0 was rejected, a key being stored.
C15_Witness ==
    /\ d_pc = "done" /\ d_method = "tap_element"
    /\ d_res.value = "count must be >= 1"
    /\ "longPress" \in DOMAIN d_params /\ d_params["longPress"].t = "bool"
    /\ d_params["longPress"].v
    /\ d_key # Null /\ d_res.log = << >>

\* The request is a tap_element with a JSON integer count of at least 1 (or
\* none) and a JSON boolean longPress (or none) that returned a result.
IsTapElementResult ==
    /\ d_pc = "done" /\ d_method = "tap_element" /\ d_res.kind = "result"
    /\ "count" \in DOMAIN d_params => d_params["count"].t = "int"
    /\ "longPress" \in DOMAIN d_params => d_params["longPress"].t = "bool"

\* C16: tap_element with longPress true issues one long-press gesture and
\* no tap and reports count 1, whatever count >= 1 was asked; with longPress
\* false it issues count taps and no long press and reports that count; the
\* gestures are aimed within half a pixel of the centre of the rect.
C16_TapElementGestures ==
    IsTapElementResult =>
        LET count == IF "count" \in DOMAIN d_params THEN d_params["count"].v ELSE 1
            long == "longPress" \in DOMAIN d_params /\ d_params["longPress"].v
            rect == coord_match(d_params["coordinate"].v)
            log == d_res.log
            tapped == OpsOf(log, {"tap"})
            pressed == OpsOf(log, {"swipe"})
        IN  /\ count >= 1
            /\ Cardinality(tapped) = (IF long THEN 0 ELSE count)
            /\ Cardinality(pressed) = (IF long THEN 1 ELSE 0)
            /\ d_res.fields.count = (IF long THEN 1 ELSE count)
            /\ \A i \in tapped \cup pressed :
                  /\ 2 * log[i].x - (2 * rect[1] + rect[3]) \in -1..1
                  /\ 2 * log[i].y - (2 * rect[2] + rect[4]) \in -1..1
            /\ \A i \in pressed :
                  log[i].x2 = log[i].x /\ log[i].y2 = log[i].y /\ log[i].ms = LongPressMs

\* C16 witness: a long press asked with the largest count reported count 1.
C16_Witness ==
    /\ IsTapElementResult
    /\ "count" \in DOMAIN d_params /\ d_params["count"].v = MaxCount
    /\ "longPress" \in DOMAIN d_params /\ d_params["longPress"].v
    /\ d_res.fields.count = 1

\* C17 (as claimed): enter_text taps the centre of the element first, and a
\* text of n lines has n - 1 newline key events issued for it, none after
\* the last line.
C17_EnterTextKeyEvents ==
    (/\ d_pc = "done" /\ d_method = "enter_text" /\ d_res.kind = "result")
        => /\ d_res.log[1].op = "tap"
           /\ Cardinality(OpsOf(d_res.log, {"keyevent"})) = Len(d_params["text"].v) - 1

\* The request carries JSON integers for all the given parameters.
HasIntegers(keys) ==
    \A k \in keys : k \in DOMAIN d_params /\ d_params[k].t = "int"

\* C18: the swipe a scroll issues starts at the point given, unclamped, and
\* ends at (min(max(x + distanceX, 0), W - 1), min(max(y + distanceY, 0),
\* H - 1)), a point of the screen, for every screen of W, H >= 1.
C18_ScrollClamped ==
    (/\ d_pc = "done" /\ d_method = "scroll"
     /\ HasIntegers({"x", "y", "distanceX", "distanceY"})
     /\ d_dev.screen # << >>)
        => LET x == d_params["x"].v
               y == d_params["y"].v
               tx == x + d_params["distanceX"].v
               ty == y + d_params["distanceY"].v
               W == d_dev.screen[1]
               H == d_dev.screen[2]
           IN  \A i \in OpsOf(d_res.log, {"swipe"}) :
                  LET g == d_res.log[i]
                  IN  /\ g.x = x /\ g.y = y
                      /\ g.x2 = (IF tx < 0 THEN 0 ELSE IF tx > W - 1 THEN W - 1 ELSE tx)
                      /\ g.y2 = (IF ty < 0 THEN 0 ELSE IF ty > H - 1 THEN H - 1 ELSE ty)
                      /\ g.x2 \in 0..(W - 1) /\ g.y2 \in 0..(H - 1)

\* C18 witness: a scroll from a point left of the screen, to the left and
\* far down, ended at the bottom left corner of the screen.
C18_Witness ==
    /\ d_pc = "done" /\ d_method = "scroll" /\ d_res.kind = "result"
    /\ \E i \in OpsOf(d_res.log, {"swipe"}) :
          /\ d_res.log[i].x < 0 /\ d_res.log[i].x2 = 0
          /\ d_res.log[i].y2 = d_dev.screen[2] - 1
          /\ d_params["distanceY"].v > d_dev.screen[2]

\* The request is a swipe with JSON integers x and y and a string direction.
IsSwipeRequest ==
    /\ d_pc = "done" /\ d_method = "swipe"
    /\ HasIntegers({"x", "y"})
    /\ "direction" \in DOMAIN d_params /\ d_params["direction"].t = "str"

\* The end of a swipe, in half pixels, that starts at v and travels twice2
\* half pixels along its axis on a screen of the given size.
EndTwice(v, twice2, size) ==
    LET t == 2 * v + twice2
    IN  IF t < 0 THEN 0 ELSE IF t > 2 * (size - 1) THEN 2 * (size - 1) ELSE t

\* The swipe the request has to issue when it travels twice2 half pixels in
\* the direction dir: the step is along the axis of the direction only.
SwipeIs(g, dir, twice2) ==
    LET W == d_dev.screen[1]
        H == d_dev.screen[2]
        dx == IF dir = "left" THEN -twice2 ELSE IF dir = "right" THEN twice2 ELSE 0
        dy == IF dir = "up" THEN -twice2 ELSE IF dir = "down" THEN twice2 ELSE 0
    IN  /\ g.x = d_params["x"].v /\ g.y = d_params["y"].v
        /\ 2 * g.x2 = EndTwice(g.x, dx, W)
        /\ 2 * g.y2 = EndTwice(g.y, dy, H)

\* The request was rejected for its direction, before anything was asked of
\* the device.
DirectionRejected ==
    /\ d_res.kind = "rpc_error"
    /\ d_res.value = "direction must be one of: up, down, left, right"
    /\ d_res.log = << >>

\* C19 (as claimed): a swipe travels max(180, min(W, H) / 2) along the axis
\* of its direction and ends clamped to the screen, and a direction that is
\* not one of up, down, left, right is rejected before the device is asked
\* anything.
C19_SwipeGeometryAsClaimed ==
    IsSwipeRequest =>
        LET dir == d_params["direction"].v
        IN  IF dir \in {"up", "down", "left", "right"}
            THEN d_dev.screen # << >> =>
                   \A i \in OpsOf(d_res.log, {"swipe"}) :
                      SwipeIs(d_res.log[i], dir,
                              Max(2 * MinSpan, Min(d_dev.screen[1], d_dev.screen[2])))
            ELSE DirectionRejected

\* C19 (amended): the direction is taken in lower case and without the
\* whitespace around it; the swipe travels max(180, floor(min(W, H) / 2))
\* along the axis of that direction and ends clamped to the screen; a
\* direction that is then not one of up, down, left, right is rejected
\* before the device is asked anything.
C19_SwipeGeometry ==
    IsSwipeRequest =>
        LET dir == lower_strip(d_params["direction"].v)
        IN  IF dir \in {"up", "down", "left", "right"}
            THEN d_dev.screen # << >> =>
                   \A i \in OpsOf(d_res.log, {"swipe"}) :
                      SwipeIs(d_res.log[i], dir,
                              2 * Max(MinSpan,
                                      Min(d_dev.screen[1], d_dev.screen[2]) \div 2))
            ELSE DirectionRejected

\* C19 witness: on a screen 401 wide a swipe down from y = 200 ended at
\* y = 400.
C19_Witness ==
    /\ IsSwipeRequest /\ d_res.kind = "result"
    /\ d_dev.screen = <<401, 803>>
    /\ d_params["direction"].v = "down" /\ d_params["y"].v = 200
    /\ \E i \in OpsOf(d_res.log, {"swipe"}) : d_res.log[i].y2 = 400

\* The identifier open_app takes from the request.
RequestedPackage == text_strip(str_of(identifier_of(d_params)))

\* The characters are a package name: segments of letters, digits and "_"
\* that start with a letter, joined by ".", at least two of them.
IsPackageName(cs) ==
    LET dots == {i \in 1..Len(cs) : cs[i] = "."}
        starts == {1} \cup {i + 1 : i \in dots}
    IN  /\ dots # {}
        /\ \A i \in starts : i <= Len(cs) /\ cs[i] \in {"a", "B"}
        /\ \A i \in (1..Len(cs)) \ dots : cs[i] \in {"a", "B", "0", "1", "_"}

\* C20: an open_app whose identifier is empty or is no package name fails
\* with a validation error, and no command at all has been issued to the
\* device.
C20_OpenAppValidatesFirst ==
    (d_pc = "done" /\ d_method = "open_app" /\ ~IsPackageName(RequestedPackage))
        => /\ d_res.kind = "rpc_error"
           /\ d_res.value \in {"bundle_identifier is required",
                               "bundle_identifier is not a valid Android package name"}
           /\ d_res.log = << >>

\* C20 witness: the identifier "a a" (a space, no dot) was rejected.
C20_Witness ==
    /\ d_pc = "done" /\ d_method = "open_app"
    /\ RequestedPackage = <<"a", " ", "a">>
    /\ d_res.value = "bundle_identifier is not a valid Android package name"
    /\ d_res.log = << >>

\* The request is an open_app that passed validation and went to the device.
IsLaunch == d_pc = "done" /\ d_method = "open_app" /\ d_res.log # << >>

\* C21 (as claimed): open_app returns a success result only if the foreground
\* app queried after the launch is the requested package.
C21_ForegroundMustMatch ==
    (IsLaunch /\ d_res.kind = "result")
        => /\ OpsOf(d_res.log, {"dumpsys_window"}) # {}
           /\ d_dev.foreground = "same"
           /\ ~(d_dev.how = "fail" /\ d_dev.fail_at \in OpsOf(d_res.log, {"dumpsys_window"}))

\* The k-th invocation of the request returned a non-zero status.
ReturnedNonzero(k) == d_dev.how = "fail" /\ d_dev.fail_at = k

\* The k-th invocation of the request did not return within its timeout.
TimedOut(k) == d_dev.how = "timeout" /\ d_dev.fail_at = k

\* The primary strategy succeeded: the entry point was resolved to a
\* component and the start returned no error status and no error text.
PrimarySucceeded ==
    /\ ~ReturnedNonzero(1) /\ ~TimedOut(1) /\ d_dev.resolve = "component"
    /\ ~ReturnedNonzero(2) /\ ~TimedOut(2) /\ d_dev.start = "ok"

\* The launch step failed: _launch_package raised, or one of its invocations
\* did.
LaunchFailed ==
    \/ d_res.value = "failed to open app"
    \/ /\ d_res.kind = "exception"
       /\ d_res.log[Len(d_res.log)].op \in {"resolve_activity", "am_start", "monkey"}

\* C22 (as claimed): in an open_app that reached the device, the fallback is
\* issued if and only if the primary strategy did not succeed, it is issued
\* once and after the invocations of the primary strategy, and the launch
\* step fails only when the fallback was issued and failed.
C22_FallbackOnlyAfterPrimary ==
    IsLaunch
        => LET fallbacks == OpsOf(d_res.log, {"monkey"})
           IN  /\ d_res.log[1].op = "resolve_activity"
               /\ (fallbacks # {}) <=> ~PrimarySucceeded
               /\ Cardinality(fallbacks) <= 1
               /\ \A i \in fallbacks :
                     \A j \in OpsOf(d_res.log, {"resolve_activity", "am_start"}) : j < i
               /\ LaunchFailed
                     => \E i \in fallbacks :
                           /\ i = Len(d_res.log)
                           /\ ReturnedNonzero(i) \/ TimedOut(i) \/ d_dev.monkey # "ok"

\* The operations that change what the screen shows.
MutatingMethods == {"tap", "tap_element", "enter_text", "scroll", "swipe", "open_app"}

\* C23 (as claimed): a successful tap, tap_element, enter_text, scroll, swipe
\* or open_app returns the hierarchy captured by the last two invocations of
\* that same request (its dump, and its read of that dump), after every
\* other invocation it made.
C23_SnapshotIsFresh ==
    (d_pc = "done" /\ d_method \in MutatingMethods /\ d_res.kind = "result")
        => LET n == Len(d_res.log)
           IN  /\ n >= 3
               /\ d_res.log[n - 1].op = "uiautomator_dump" /\ d_res.log[n].op = "cat_dump"
               /\ OpsOf(d_res.log, {"uiautomator_dump", "cat_dump"}) = {n - 1, n}
               /\ OpsOf(d_res.log, InputOps) # {}
               /\ d_res.fields.tree = n
               /\ d_res.fields.dump = "own"
               /\ d_res.value = "tree"

\* The invocations made with check=False: their status is looked at by the
\* caller, a non-zero one does not by itself end the request.
UncheckedOps == {"resolve_activity", "am_start", "monkey", "dumpsys_window"}

\* The k-th invocation of the request was one that is required to succeed,
\* and it failed: it returned a non-zero status or did not return in time.
RequiredFailed(k) ==
    /\ d_pc = "done" /\ d_dev.fail_at = k /\ k \in 1..Len(d_res.log)
    /\ d_res.log[k].op \notin UncheckedOps

\* C24: when an invocation that is required to succeed fails, it is the last
\* invocation of the request, and the request ends with an error that carries
\* the failure of the tool, with no result.
C24_ToolFailureNotRetried ==
    \A k \in 1..(MaxFail + 1) :
        RequiredFailed(k)
            => /\ Len(d_res.log) = k
               /\ d_res.kind = (IF d_dev.how = "fail" THEN "rpc_error" ELSE "exception")
               /\ d_res.value = (IF d_dev.how = "fail" THEN "adb command failed"
                                                        ELSE "TimeoutExpired")
               /\ d_res.fields = NoFields

\* C24 witness: the second tap of a tap_element failed, and no third tap and
\* no dump of the hierarchy followed.
C24_Witness ==
    /\ RequiredFailed(2) /\ d_method = "tap_element" /\ d_dev.how = "fail"
    /\ "count" \in DOMAIN d_params /\ d_params["count"] = Integer(3)
    /\ Len(d_res.log) = 2 /\ d_res.kind = "rpc_error"

\* The hostnames connect_remote has tried for the connection, in order.
HostsTried(k) == SelectSeq(b_tried[k], LAMBDA h : h # "usbmux")

\* The second values connect_remote returns without a socket.
FailureVias == {UsbmuxVia(o) : o \in {"absent", "notfound", "failed"}}

\* connect_remote has returned for the connection.
Resolved(k) == b_via[k] # ""

\* C25: the hostnames are tried one at a time in the order of the candidates;
\* the usbmux lookup is made only after every hostname has failed and never
\* when pymobiledevice3 is absent; once a strategy has given a socket or the
\* last one has failed nothing more is tried, and the relay runs on the
\* socket of the hostname tried last or of the lookup.
C25_StrategiesInOrder ==
    /\ [](\A k \in BConns :
            b_pc[k] \notin {"none", "candidates"} =>
              /\ \E listed \in DevicectlOutputs :
                    HostsTried(k) \o b_cands[k] = coredevice_candidates(Udid, listed)
              /\ \A i \in 1..Len(b_tried[k]) :
                    b_tried[k][i] = "usbmux"
                        => /\ i = Len(b_tried[k]) /\ b_cands[k] = << >>
                           /\ b_via[k] \in {UsbmuxVia(o) : o \in {"notfound", "failed", "ok"}}
              /\ b_via[k] = UsbmuxVia("absent")
                    => b_cands[k] = << >> /\ HostsTried(k) = b_tried[k]
              /\ b_pc[k] = "pump"
                    => \/ b_via[k] = UsbmuxVia("ok") /\ b_tried[k][Len(b_tried[k])] = "usbmux"
                       \/ b_via[k] = CoredeviceVia(b_tried[k][Len(b_tried[k])])
              /\ b_pc[k] \in {"connect", "usbmux"} => ~Resolved(k))
    /\ [](\A k \in BConns :
            b_pc[k] \in {"none", "candidates"} => b_tried[k] = << >> /\ ~Resolved(k))
    /\ [][\A k \in BConns :
             Resolved(k) => b_tried'[k] = b_tried[k] /\ b_via'[k] = b_via[k]]_vars

\* C25 witness: the first hostname failed, the second one connected and the
\* relay runs on its socket; the lookup was not made.
C25_Witness ==
    \E k \in BConns :
        /\ b_pc[k] = "pump" /\ b_tried[k] = <<"U.coredevice.local", "h1">>
        /\ b_via[k] = CoredeviceVia("h1")

\* C26: when no strategy gives a socket the local connection is closed with
\* nothing written to it; and whatever has become of one connection, a
\* waiting local connection can be accepted and every step of the resolution
\* and the relay of another connection can be taken.
C26_FailureIsContained ==
    \A k \in BConns :
        /\ (b_pc[k] = "closed" /\ b_via[k] \in FailureVias)
              => b_open[k] = {} /\ b_wr[k]["a"] = << >> /\ b_wr[k]["b"] = << >>
        /\ \A j \in BConns \ {k} :
              /\ (j \in b_clients /\ b_pc[j] = "none")
                    => ENABLED BrokerAccept(j, "127.0.0.1")
              /\ b_pc[j] = "candidates" => ENABLED CoredeviceCandidates(j, << >>)
              /\ b_pc[j] = "connect" => ENABLED TryConnect(j, TRUE)
              /\ b_pc[j] = "usbmux" => ENABLED TryUsbmux(j, "ok")
              /\ (b_pc[j] = "pump" /\ b_ready[j] = << >> /\ Readable(j) # << >>)
                    => ENABLED PumpSelect(j)
              /\ (b_pc[j] = "pump" /\ b_ready[j] # << >>)
                    => ENABLED (\E sent \in 0..MaxBytes : PumpForward(j, sent))

\* C26 witness: one local connection was dropped for want of a remote socket
\* and the other one relays bytes to the device.
C26_Witness ==
    \E k \in BConns : \E j \in BConns \ {k} :
        /\ b_pc[k] = "closed" /\ b_via[k] \in FailureVias
        /\ b_pc[j] = "pump" /\ b_wr[j]["b"] # << >>

\* The strategies a failure message of connect_remote names.
StrategiesNamed(via) ==
    IF via = "unavailable(no coredevice hostname, no pymobiledevice3)"
    THEN {"coredevice", "usbmux"}
    ELSE {"usbmux"}

\* The strategies connect_remote went through before it failed.
StrategiesTried(k) ==
    (IF HostsTried(k) # << >> THEN {"coredevice"} ELSE {}) \cup {"usbmux"}

\* C27 (as claimed): the reason logged for a dropped connection names every
\* strategy that was tried.
C27_ReasonNamesEveryStrategy ==
    \A k \in BConns :
        (b_pc[k] = "closed" /\ b_via[k] \in FailureVias)
            => StrategiesTried(k) \subseteq StrategiesNamed(b_via[k])

\* C28: a pairing holds both sockets for as long as it relays and neither
\* of them afterwards; a read that finds the end of the stream, a read that
\* fails and a write that does not take all the bytes each end the relay
\* with both sockets closed.
C28_TeardownClosesBoth ==
    /\ [](\A k \in BConns :
            /\ b_open[k] \in {{}, {"a"}, {"a", "b"}}
            /\ b_open[k] = {"a", "b"} <=> b_pc[k] = "pump"
            /\ b_pc[k] = "closed" => b_open[k] = {})
    /\ [][\A k \in BConns :
            (b_pc[k] = "pump" /\ b_ready[k] # << >> /\ b_ready'[k] # b_ready[k]) =>
               LET s == Head(b_ready[k])
                   taken == Len(b_wr'[k][Other(s)]) - Len(b_wr[k][Other(s)])
               IN  (b_rd[k][s] = << >> \/ taken < Len(b_rd[k][s]))
                      => b_pc'[k] = "closed" /\ b_open'[k] = {}]_vars

\* C28 witness: a relay that had forwarded a byte to the device ended at the
\* end of the client's stream, both sockets closed.
C28_Witness ==
    \E k \in BConns :
        /\ b_pc[k] = "closed" /\ b_via[k] \notin FailureVias /\ Resolved(k)
        /\ "a" \in b_eof[k] /\ b_wr[k]["b"] # << >> /\ b_open[k] = {}

\* The bytes of the sequence.
BytesIn(q) == {q[i] : i \in 1..Len(q)}

\* C29: a byte that is readable on a socket of a pairing that relays is
\* eventually written to the other socket, or the pairing is torn down,
\* whatever the other direction does.
C29_ReadableIsForwarded ==
    \A k \in BConns : \A s \in Sides : \A n \in 1..MaxBytes :
        (b_pc[k] = "pump" /\ n \in BytesIn(b_rd[k][s]))
            ~> (n \in BytesIn(b_wr[k][Other(s)]) \/ b_pc[k] = "closed")

\* C29 witness: the relay has forwarded a byte in each direction.
C29_Witness ==
    \E k \in BConns :
        b_pc[k] = "pump" /\ b_wr[k]["a"] # << >> /\ b_wr[k]["b"] # << >>

\* C30: the text _format_rect makes of a rect with w, h >= 0 is parsed by
\* _parse_coordinate_rect into values within half a tenth of x, y, w and h,
\* and formatting those values gives the same text again.
C30_RectRoundTrip ==
    /\ d_pc \in {"parsed", "again"}
          => /\ d_rt.parsed.err = "none"
             /\ \A i \in 1..4 :
                   LET diff == Signed(d_rt.parsed.v[i]) - Signed(d_rt.rect[i])
                   IN  diff \in -8..8
    /\ d_pc = "again" => d_rt.again = d_rt.text

\* C30 witness: the rect (-0.03125, -0.25, 0.75, 100.21875) became the text
\* {{-0.0, -0.2}, {0.8, 100.2}} and that text again after parsing.
C30_Witness ==
    /\ d_pc = "again"
    /\ d_rt.rect = <<Of32nds(-1), Of32nds(-8), Of32nds(24), Of32nds(3207)>>
    /\ d_rt.text = <<"{", "{", "-", "0", ".", "0", ",", " ", "-", "0", ".", "2", "}", ",", " ",
                  "{", "0", ".", "8", ",", " ", "1", "0", "0", ".", "2", "}", "}">>
    /\ d_rt.again = d_rt.text

(***************************************************************************)
(* Properties of the bounds and of the hierarchy text.                     *)
(***************************************************************************)
\* The start tags of the nodes of a document, in document order.
NodeTags(xml) == SelectSeq(xml, LAMBDA t : t.start /\ t.tag = "node")

\* The line has a frame field.
HasFrame(l) == \E p \in 1..Len(l.parts) : l.parts[p].field = "frame"

\* C31: the two-corner text of integers x1, y1, x2, y2 (blanks around it or
\* not) parses to the rect (x1, y1, max(0, x2 - x1), max(0, y2 - y1)), whose
\* width and height are not negative; a text that is not of the form gives
\* None and no error; a node whose bounds are missing or not of the form
\* has a line without a frame field in a hierarchy text that is still
\* returned, and a node with bounds has its frame.
C31_BoundsToRect ==
    /\ d_pc = "rect_of" =>
          IF d_rt.ints = << >> THEN d_rt.rect = << >>
          ELSE /\ Len(d_rt.rect) = 4
               /\ Signed(d_rt.rect[1]) = 160 * d_rt.ints[1]
               /\ Signed(d_rt.rect[2]) = 160 * d_rt.ints[2]
               /\ Signed(d_rt.rect[3]) = 160 * Max(0, d_rt.ints[3] - d_rt.ints[1])
               /\ Signed(d_rt.rect[4]) = 160 * Max(0, d_rt.ints[4] - d_rt.ints[2])
               /\ ~d_rt.rect[3].neg /\ ~d_rt.rect[4].neg
    /\ (d_pc = "tree" /\ d_rt.xml \notin BrokenDocuments) =>
          /\ d_rt.lines.err = "none"
          /\ Len(d_rt.lines.v) = Len(NodeTags(d_rt.xml)) + 1
          /\ \A k \in 1..Len(NodeTags(d_rt.xml)) :
                LET attrs == NodeTags(d_rt.xml)[k].attrs
                IN  HasFrame(d_rt.lines.v[k + 1])
                       <=> ("bounds" \in DOMAIN attrs /\ attrs["bounds"] \notin MalformedBounds)

\* C31 witness: [110,20][10,220], whose second corner is left of the first,
\* became the rect (110, 20, 0, 200).
C31_Witness ==
    /\ d_pc = "rect_of"
    /\ d_rt.ints = <<110, 20, 10, 220>>
    /\ d_rt.rect = <<FloatOf(FALSE, 17600), FloatOf(FALSE, 3200), FloatOf(FALSE, 0),
                     FloatOf(FALSE, 32000)>>

\* The depth of the k-th node of a document: the nodes that are open at its
\* start tag.
EnclosingNodes(xml, k) ==
    LET at == CHOOSE i \in 1..Len(xml) :
                 /\ xml[i].start /\ xml[i].tag = "node"
                 /\ Cardinality({j \in 1..i : xml[j].start /\ xml[j].tag = "node"}) = k
    IN  Cardinality({j \in 1..(at - 1) : xml[j].start /\ xml[j].tag = "node"})
        - Cardinality({j \in 1..(at - 1) : ~xml[j].start /\ xml[j].tag = "node"})

\* C32: the hierarchy text of a document starts with the line Hierarchy,
\* then has one line for each node and none for another element, in the
\* order of the start tags (a node before its children, the children in
\* document order), each indented by two spaces for every node that
\* encloses it.
C32_HierarchyText ==
    (d_pc = "tree" /\ d_rt.lines.err = "none") =>
        LET lines == d_rt.lines.v
            nodes == NodeTags(d_rt.xml)
        IN  /\ lines[1] = Header
            /\ Len(lines) = Len(nodes) + 1
            /\ \A k \in 1..Len(nodes) :
                  /\ lines[k + 1].parts = node_parts(nodes[k].attrs)
                  /\ lines[k + 1].indent = 2 * EnclosingNodes(d_rt.xml, k)

\* C32 witness: a node, in it another element, in that a node: the second
\* node's line follows the first one's, two spaces in.
C32_Witness ==
    /\ d_pc = "tree" /\ d_rt.lines.err = "none"
    /\ Len(d_rt.xml) = 8
    /\ \A i \in 1..4 : d_rt.xml[i].start
    /\ <<d_rt.xml[1].tag, d_rt.xml[2].tag, d_rt.xml[3].tag, d_rt.xml[4].tag>>
          = <<"hierarchy", "node", "hierarchy", "node">>
    /\ Len(d_rt.lines.v) = 3
    /\ d_rt.lines.v[2].indent = 0 /\ d_rt.lines.v[2].parts[1].text = <<"V", "2">>
    /\ d_rt.lines.v[3].indent = 2 /\ d_rt.lines.v[3].parts[1].text = <<"V", "4">>

(***************************************************************************)
(* Properties of the framing.                                              *)
(***************************************************************************)
\* The bytes conn.recv has returned on the connection so far.
Received(c) == SubSeq(TheStream, 1, StreamSent - Len(net[c]))

\* The segments of the bytes that end in a newline, without the newline.
Segments(bytes) ==
    LET ends == {i \in 1..Len(bytes) : bytes[i] = LF}
        before(i) == {j \in ends : j < i}
        from(i) == IF before(i) = {} THEN 1
                   ELSE (CHOOSE j \in before(i) : \A h \in before(i) : h <= j) + 1
    IN  [k \in 1..Cardinality(ends) |->
            LET i == CHOOSE e \in ends : Cardinality(before(e)) = k - 1
            IN  SubSeq(bytes, from(i), i - 1)]

\* The segment is blank: empty or whitespace only.
IsBlank(seg) == \A i \in 1..Len(seg) : seg[i] = SP

\* A segment without the whitespace at its ends.
Trimmed(seg) ==
    LET inner == {i \in 1..Len(seg) : seg[i] # SP}
    IN  SubSeq(seg, CHOOSE i \in inner : \A j \in inner : i <= j,
               CHOOSE i \in inner : \A j \in inner : j <= i)

\* The request lines of the bytes: the segments that are not blank, trimmed.
RequestLines(bytes) ==
    LET kept == SelectSeq(Segments(bytes), LAMBDA seg : ~IsBlank(seg))
    IN  [k \in 1..Len(kept) |-> Trimmed(kept[k])]

\* The thread of the connection is between two reads or has ended.
BetweenReads(c) == pc[c] \in {"loop", "recv", "closed", "crashed"}

\* C33 (as claimed): while the stop flag is not set the lines dispatched on
\* a connection are the non-blank newline-terminated segments of all the
\* bytes received, in order and once each, however the bytes were split
\* into reads: at any time they are the first of these segments, and
\* between two reads and at the close of the connection all of them; bytes
\* after the last newline are not dispatched.
C33_FramingIndependentOfReads ==
    \A c \in clients :
        LET lines == RequestLines(Received(c))
        IN  /\ Len(handled[c]) <= Len(lines)
            /\ \A i \in 1..Len(handled[c]) : handled[c][i] = lines[i]
            /\ (BetweenReads(c) /\ ~stop_event) => handled[c] = lines

(***************************************************************************)
(* Properties of the relay.                                                *)
(***************************************************************************)
\* The bytes of the sequence are in the order they arrived, none twice.
InArrivalOrder(q) == \A i, j \in 1..Len(q) : i < j => q[i] < q[j]

\* C34: in each direction of a pairing the bytes written to the
\* destination socket are at all times the first of the bytes read from the
\* source socket, in their order and once each: every write appends the
\* first bytes of what was just read from the other socket, the bytes read
\* are readable no more, a write that does not take them all is the last
\* one of the pairing, and nothing is written to the socket the bytes were
\* read from or after the relay has ended.
C34_RelayIntegrity ==
    /\ [](\A k \in BConns : \A s \in Sides :
            /\ InArrivalOrder(b_wr[k][s])
            /\ BytesIn(b_wr[k][s]) \cap BytesIn(b_rd[k][s]) = {}
            /\ BytesIn(b_wr[k]["a"]) \cap BytesIn(b_wr[k]["b"]) = {}
            /\ BytesIn(b_wr[k]["a"]) \cap BytesIn(b_rd[k]["b"]) = {}
            /\ BytesIn(b_wr[k]["b"]) \cap BytesIn(b_rd[k]["a"]) = {})
    /\ [][\A k \in BConns : \A s, d \in Sides :
            (s # d /\ b_wr'[k][d] # b_wr[k][d]) =>
               /\ b_pc[k] = "pump"
               /\ \E n \in 1..Len(b_rd[k][s]) :
                     /\ b_wr'[k][d] = b_wr[k][d] \o SubSeq(b_rd[k][s], 1, n)
                     /\ n < Len(b_rd[k][s]) => b_pc'[k] = "closed"
               /\ b_rd'[k][s] = << >>
               /\ b_wr'[k][s] = b_wr[k][s]]_vars

\* C34 witness: two bytes of the client were written to the device, in the
\* order they arrived, while the pairing relays.
C34_Witness ==
    \E k \in BConns : b_pc[k] = "pump" /\ b_wr[k]["b"] = <<1, 2>> /\ b_wr[k]["a"] = << >>

\* The connection's thread takes a blank line out of its buffer in this step.
TakesBlankLine(c) ==
    /\ pc[c] = "extract"
    /\ buffer'[c] # buffer[c]
    /\ IsBlank(Segments(buffer[c])[1])

\* C35: a blank line (nothing or only whitespace before its newline) is
\* taken out of the buffer and nothing else happens: no line is dispatched,
\* no Response is written, the bytes after it stay as they are and the
\* thread goes on with them; the dispatched lines are never blank, they are
\* the first non-blank segments of the bytes received, as if the blank
\* lines were not there, and every Response answers one of them.
C35_BlankLineIgnored ==
    /\ [](\A c \in clients :
            /\ \A i \in 1..Len(handled[c]) : ~IsBlank(handled[c][i])
            /\ Len(handled[c]) <= Len(RequestLines(Received(c)))
            /\ \A i \in 1..Len(handled[c]) : handled[c][i] = RequestLines(Received(c))[i]
            /\ Len(out[c]) <= Len(handled[c])
            /\ \A i \in 1..Len(out[c]) : out[c][i].line = handled[c][i])
    /\ [][\A c \in clients :
            TakesBlankLine(c) =>
               /\ buffer'[c] = SubSeq(buffer[c], Len(Segments(buffer[c])[1]) + 2,
                                      Len(buffer[c]))
               /\ pc'[c] = "extract"
               /\ UNCHANGED <<handled, out, line, pending, api_key, lastSet, stop_event,
                              net>>]_vars

\* C35 witness: a request line and a whitespace-only line were received;
\* the request has its Response, the blank line left nothing behind and the
\* thread waits for more.
C35_Witness ==
    \E c \in clients :
        /\ pc[c] = "recv" /\ ~stop_event
        /\ Received(c) = <<"tree", LF, SP, LF>>
        /\ handled[c] = <<<<"tree">>>>
        /\ Len(out[c]) = 1
        /\ buffer[c] = << >>

====
